---- MODULE Spec2Model ----
(***************************************************************************)
(* Price-resolution engine of sistema_precios (precios/services.py,        *)
(* precios/models.py).  A calculation resolves the valid price list, looks *)
(* up the item's base price, runs the five rule stages in order and        *)
(* records one audit entry.                                                *)
(*                                                                         *)
(* Conventions                                                             *)
(*   - a Decimal is an exact fraction <<n, d>>, d > 0, in lowest terms     *)
(*     (Python's Decimal is exact for the sums, products and quotients by  *)
(*     100 that occur here);                                               *)
(*   - a nullable number is <<>> (None) or <<v>>; a nullable foreign key   *)
(*     is 0 (no row has pk 0); a nullable channel is the string "None";    *)
(*   - stored decimal columns hold whole units.                            *)
(***************************************************************************)
EXTENDS Integers, Sequences, FiniteSets, TLC

VARIABLES
    articulos,      \* table articulo: set of rows
    listas,         \* table lista_precio
    precios,        \* table precio_articulo
    reglas,         \* table regla_precio
    combinaciones,  \* table combinacion_producto, in the order the store returns its rows
    auditoria,      \* table auditoria_precios, rows appended since the initial state
    ultimo,         \* the last calcular_precio call and its outcome
    anteriores,     \* the calcular_precio calls before it and their outcomes, in call order
    consulta,       \* the last response of the list resolver or of the batch view
    escritores      \* per writer: the write request it handles, how far it got, its outcome

vars == <<articulos, listas, precios, reglas, combinaciones, auditoria, ultimo, anteriores,
          consulta, escritores>>

(***************************************************************************)
(* Decimal arithmetic                                                      *)
(***************************************************************************)
Abs(n) == IF n < 0 THEN -n ELSE n

RECURSIVE GCD(_, _)
GCD(a, b) == IF b = 0 THEN a ELSE GCD(b, a % b)

\* the fraction n/d in lowest terms with a positive denominator
Frac(n, d) ==
    LET s == IF d < 0 THEN -1 ELSE 1
        g == GCD(Abs(n), Abs(d))
    IN  <<(s * n) \div g, (s * d) \div g>>

Dec(n) == <<n, 1>>
DAdd(a, b) == Frac(a[1] * b[2] + b[1] * a[2], a[2] * b[2])
DSub(a, b) == Frac(a[1] * b[2] - b[1] * a[2], a[2] * b[2])
DMul(a, b) == Frac(a[1] * b[1], a[2] * b[2])
DDiv(a, b) == Frac(a[1] * b[2], a[2] * b[1])
DLt(a, b) == a[1] * b[2] < b[1] * a[2]
DLe(a, b) == a[1] * b[2] <= b[1] * a[2]
DMax(a, b) == IF DLt(a, b) THEN b ELSE a

\* float(x): the value is kept exact; binary rounding is below the model's resolution
float(x) == x

\* nullable numbers
Null == <<>>
Some(v) == <<v>>

NoCanal == "None"

(***************************************************************************)
(* Catalog: Line -> Group -> Item                                          *)
(***************************************************************************)
\* GrupoArticulo.linea
LineaDeGrupo(g) == IF g = 3 THEN 2 ELSE 1

\* Articulo.objects.get(pk=...): the set of matching rows (empty: DoesNotExist)
ArticuloPorId(id) == {a \in articulos : a.id = id}

(***************************************************************************)
(* ReglaPrecio.aplicar_descuento                                           *)
(***************************************************************************)
\* MONTO_FIJO without the floor at 0
aplicar_descuento_sin_piso(regla, precio_base) ==
    IF regla.tipo_descuento = "PORCENTAJE"
    THEN DMul(precio_base, DSub(Dec(1), DDiv(Dec(regla.valor_descuento), Dec(100))))
    ELSE DSub(precio_base, Dec(regla.valor_descuento))

aplicar_descuento(regla, precio_base) ==
    IF regla.tipo_descuento = "PORCENTAJE"
    THEN DMul(precio_base, DSub(Dec(1), DDiv(Dec(regla.valor_descuento), Dec(100))))
    ELSE DMax(DSub(precio_base, Dec(regla.valor_descuento)), Dec(0))

(***************************************************************************)
(* PrecioService.obtener_lista_vigente                                     *)
(***************************************************************************)
\* the rows of a queryset that .first() may return after order_by('-campo'):
\* the store is free to return any row of the greatest key first
\* order_by('fecha_inicio'): ascending
ClaveFechaInicioAscendente(l) == 0 - l.fecha_inicio

ClaveFechaInicio(l) == l.fecha_inicio

\* order_by('-fecha_inicio').first()
PrimerasListas(filas) ==
    {f \in filas : \A g \in filas : ClaveFechaInicio(g) <= ClaveFechaInicio(f)}

\* order_by('prioridad'): ascending
ClavePrioridadAscendente(r) == 0 - r.prioridad

ClavePrioridad(r) == r.prioridad

\* order_by('-prioridad').first()
PrimerasReglas(filas) ==
    {f \in filas : \A g \in filas : ClavePrioridad(g) <= ClavePrioridad(f)}

\* the filter of obtener_lista_vigente; fecha_consulta = fecha or today
ListasFiltradas(empresa_id, sucursal_id, canal, fecha_consulta) ==
    {l \in listas :
        /\ l.empresa = empresa_id
        /\ l.activo
        /\ l.fecha_inicio <= fecha_consulta
        /\ (sucursal_id # 0 => l.sucursal = sucursal_id)
        /\ (canal # NoCanal => l.canal = canal)
        /\ (l.fecha_fin = Null \/ l.fecha_fin[1] >= fecha_consulta)}

\* ListaPrecio.esta_vigente(fecha), fecha given
esta_vigente(lista, fecha) ==
    LET vigente == lista.activo /\ lista.fecha_inicio <= fecha
    IN  IF lista.fecha_fin # Null
        THEN vigente /\ fecha <= lista.fecha_fin[1]
        ELSE vigente

\* the set of lists the call may return; empty when it returns None
obtener_lista_vigente(empresa_id, sucursal_id, canal, fecha, hoy) ==
    LET fecha_consulta == IF fecha # Null THEN fecha[1] ELSE hoy
    IN  PrimerasListas(ListasFiltradas(empresa_id, sucursal_id, canal, fecha_consulta))

(***************************************************************************)
(* The four rule stages.  Each returns the set of pairs                    *)
(* <<nuevo_precio, descriptor or Null>> the call may return.               *)
(***************************************************************************)
\* the unscoped alternative written as two alternatives: either field null
AlcanceCoincideUnCampoNulo(regla, articulo) ==
    \/ regla.linea_articulo = LineaDeGrupo(articulo.grupo)
    \/ regla.grupo_articulo = articulo.grupo
    \/ regla.linea_articulo = 0
    \/ regla.grupo_articulo = 0

\* Q(linea_articulo=articulo.grupo.linea) | Q(grupo_articulo=articulo.grupo)
\*   | Q(linea_articulo__isnull=True, grupo_articulo__isnull=True)
AlcanceCoincide(regla, articulo) ==
    \/ regla.linea_articulo = LineaDeGrupo(articulo.grupo)
    \/ regla.grupo_articulo = articulo.grupo
    \/ (regla.linea_articulo = 0 /\ regla.grupo_articulo = 0)

\* __lt / __gt: the bounds exclusive
EnRangoExclusivo(minimo, maximo, valor) ==
    /\ (minimo = Null \/ DLt(Dec(minimo[1]), valor))
    /\ (maximo = Null \/ DLt(valor, Dec(maximo[1])))

\* Q(minimo__lte=valor) | Q(minimo__isnull=True), Q(maximo__gte=valor) | Q(maximo__isnull=True)
EnRango(minimo, maximo, valor) ==
    /\ (minimo = Null \/ DLe(Dec(minimo[1]), valor))
    /\ (maximo = Null \/ DLe(valor, Dec(maximo[1])))

\* float(x) if x else None
EcoOpcional(x) == IF x = Null \/ x[1] = 0 THEN Null ELSE Some(float(Dec(x[1])))

DescriptorBase(tipo, regla) ==
    [tipo |-> tipo, nombre |-> regla.nombre,
     descuento |-> float(Dec(regla.valor_descuento)),
     tipo_descuento |-> regla.tipo_descuento]

CandidatasCanal(lista, articulo, canal) ==
    {r \in reglas :
        /\ r.lista_precio = lista.id
        /\ r.tipo_regla = "CANAL"
        /\ r.canal = canal
        /\ r.activo
        /\ AlcanceCoincide(r, articulo)}

_aplicar_regla_canal(lista, articulo, precio_actual, canal) ==
    LET candidatas == CandidatasCanal(lista, articulo, canal)
    IN  IF candidatas = {}
        THEN {<<precio_actual, Null>>}
        ELSE {<<aplicar_descuento(regla, precio_actual),
                Some(DescriptorBase("CANAL", regla))>> :
                    regla \in PrimerasReglas(candidatas)}

CandidatasEscalaUnidades(lista, articulo, cantidad) ==
    {r \in reglas :
        /\ r.lista_precio = lista.id
        /\ r.tipo_regla = "ESCALA_UNIDADES"
        /\ r.activo
        /\ AlcanceCoincide(r, articulo)
        /\ EnRango(r.cantidad_minima, r.cantidad_maxima, cantidad)}

_aplicar_regla_escala_unidades(lista, articulo, precio_actual, cantidad) ==
    LET candidatas == CandidatasEscalaUnidades(lista, articulo, cantidad)
    IN  IF candidatas = {}
        THEN {<<precio_actual, Null>>}
        ELSE {<<aplicar_descuento(regla, precio_actual),
                Some([tipo |-> "ESCALA_UNIDADES", nombre |-> regla.nombre,
                      descuento |-> float(Dec(regla.valor_descuento)),
                      tipo_descuento |-> regla.tipo_descuento,
                      cantidad_minima |-> EcoOpcional(regla.cantidad_minima),
                      cantidad_maxima |-> EcoOpcional(regla.cantidad_maxima)])>> :
                    regla \in PrimerasReglas(candidatas)}

CandidatasEscalaMonto(lista, articulo, monto_item) ==
    {r \in reglas :
        /\ r.lista_precio = lista.id
        /\ r.tipo_regla = "ESCALA_MONTO"
        /\ r.activo
        /\ AlcanceCoincide(r, articulo)
        /\ EnRango(r.monto_minimo, r.monto_maximo, monto_item)}

_aplicar_regla_escala_monto(lista, articulo, precio_actual, monto_item) ==
    LET candidatas == CandidatasEscalaMonto(lista, articulo, monto_item)
    IN  IF candidatas = {}
        THEN {<<precio_actual, Null>>}
        ELSE {<<aplicar_descuento(regla, precio_actual),
                Some([tipo |-> "ESCALA_MONTO", nombre |-> regla.nombre,
                      descuento |-> float(Dec(regla.valor_descuento)),
                      tipo_descuento |-> regla.tipo_descuento,
                      monto_minimo |-> EcoOpcional(regla.monto_minimo),
                      monto_maximo |-> EcoOpcional(regla.monto_maximo)])>> :
                    regla \in PrimerasReglas(candidatas)}

CandidatasMontoPedido(lista, monto_pedido) ==
    {r \in reglas :
        /\ r.lista_precio = lista.id
        /\ r.tipo_regla = "MONTO_PEDIDO"
        /\ r.activo
        /\ EnRango(r.monto_minimo, r.monto_maximo, monto_pedido)}

_aplicar_regla_monto_pedido(lista, articulo, precio_actual, monto_pedido) ==
    LET candidatas == CandidatasMontoPedido(lista, monto_pedido)
    IN  IF candidatas = {}
        THEN {<<precio_actual, Null>>}
        ELSE {<<aplicar_descuento(regla, precio_actual),
                Some(DescriptorBase("MONTO_PEDIDO", regla))>> :
                    regla \in PrimerasReglas(candidatas)}

(***************************************************************************)
(* Combination stage                                                       *)
(***************************************************************************)
\* the inner loop of _validar_combinacion over items_pedido[1..n]
\* cantidad_encontrada = cantidad: the last satisfying line instead of the sum
RECURSIVE CantidadEncontradaSinSumar(_, _, _)
CantidadEncontradaSinSumar(detalle, items_pedido, n) ==
    IF n = 0 THEN 0
    ELSE LET item == items_pedido[n]
             encontrados == ArticuloPorId(item.articulo_id)
             resto == CantidadEncontradaSinSumar(detalle, items_pedido, n - 1)
         IN  IF encontrados = {} THEN resto
             ELSE LET articulo == CHOOSE a \in encontrados : TRUE
                  IN  IF \/ detalle.articulo # 0 /\ detalle.articulo = item.articulo_id
                         \/ detalle.grupo_articulo # 0
                              /\ detalle.grupo_articulo = articulo.grupo
                         \/ detalle.linea_articulo # 0
                              /\ detalle.linea_articulo = LineaDeGrupo(articulo.grupo)
                      THEN item.cantidad
                      ELSE resto

RECURSIVE CantidadEncontrada(_, _, _)
CantidadEncontrada(detalle, items_pedido, n) ==
    IF n = 0 THEN 0
    ELSE LET item == items_pedido[n]
             encontrados == ArticuloPorId(item.articulo_id)
             suma == CantidadEncontrada(detalle, items_pedido, n - 1)
         IN  IF encontrados = {} THEN suma       \* Articulo.DoesNotExist: continue
             ELSE LET articulo == CHOOSE a \in encontrados : TRUE
                  IN  IF detalle.articulo # 0 /\ detalle.articulo = item.articulo_id
                      THEN suma + item.cantidad
                      ELSE IF detalle.grupo_articulo # 0
                              /\ detalle.grupo_articulo = articulo.grupo
                      THEN suma + item.cantidad
                      ELSE IF detalle.linea_articulo # 0
                              /\ detalle.linea_articulo = LineaDeGrupo(articulo.grupo)
                      THEN suma + item.cantidad
                      ELSE suma

\* cantidad_minima read as the least number of order lines
_validar_combinacion_con_minima(combinacion, items_pedido) ==
    /\ Len(items_pedido) >= combinacion.cantidad_minima
    /\ \A i \in 1..Len(combinacion.detalles) :
        ~(CantidadEncontrada(combinacion.detalles[i], items_pedido, Len(items_pedido))
            < combinacion.detalles[i].cantidad_requerida)

_validar_combinacion(combinacion, items_pedido) ==
    \A i \in 1..Len(combinacion.detalles) :
        ~(CantidadEncontrada(combinacion.detalles[i], items_pedido, Len(items_pedido))
            < combinacion.detalles[i].cantidad_requerida)

\* CombinacionProducto.objects.filter(lista_precio=lista, activo=True): positions, in stored order
CombinacionesDeLista(lista) ==
    {i \in 1..Len(combinaciones) :
        combinaciones[i].lista_precio = lista.id /\ combinaciones[i].activo}

\* order_by('-valor_descuento'): the matching bundle of the largest discount value
_aplicar_regla_combinacion_mayor(lista, articulo, precio_actual, items_pedido) ==
    LET validas == {i \in CombinacionesDeLista(lista) :
                        _validar_combinacion(combinaciones[i], items_pedido)}
    IN  IF validas = {}
        THEN {<<precio_actual, Null>>}
        ELSE LET combinacion == combinaciones[CHOOSE i \in validas : \A j \in validas :
                                    combinaciones[i].valor_descuento
                                        >= combinaciones[j].valor_descuento]
                 nuevo_precio ==
                    IF combinacion.tipo_descuento = "PORCENTAJE"
                    THEN DMul(precio_actual,
                              DSub(Dec(1), DDiv(Dec(combinacion.valor_descuento), Dec(100))))
                    ELSE DMax(DSub(precio_actual, Dec(combinacion.valor_descuento)), Dec(0))
             IN  {<<nuevo_precio, Some(DescriptorBase("COMBINACION", combinacion))>>}

\* only the bundles with a requirement the priced item meets
_aplicar_regla_combinacion_del_articulo(lista, articulo, precio_actual, items_pedido) ==
    LET validas == {i \in CombinacionesDeLista(lista) :
                        /\ _validar_combinacion(combinaciones[i], items_pedido)
                        /\ \E d \in 1..Len(combinaciones[i].detalles) :
                            LET detalle == combinaciones[i].detalles[d]
                            IN  \/ detalle.articulo = articulo.id
                                \/ detalle.grupo_articulo = articulo.grupo
                                \/ detalle.linea_articulo = LineaDeGrupo(articulo.grupo)}
    IN  IF validas = {}
        THEN {<<precio_actual, Null>>}
        ELSE LET combinacion == combinaciones[CHOOSE i \in validas : \A j \in validas : i <= j]
                 nuevo_precio ==
                    IF combinacion.tipo_descuento = "PORCENTAJE"
                    THEN DMul(precio_actual,
                              DSub(Dec(1), DDiv(Dec(combinacion.valor_descuento), Dec(100))))
                    ELSE DMax(DSub(precio_actual, Dec(combinacion.valor_descuento)), Dec(0))
             IN  {<<nuevo_precio, Some(DescriptorBase("COMBINACION", combinacion))>>}

_aplicar_regla_combinacion(lista, articulo, precio_actual, items_pedido) ==
    LET validas == {i \in CombinacionesDeLista(lista) :
                        _validar_combinacion(combinaciones[i], items_pedido)}
    IN  IF validas = {}
        THEN {<<precio_actual, Null>>}
        ELSE LET combinacion == combinaciones[CHOOSE i \in validas : \A j \in validas : i <= j]
                 nuevo_precio ==
                    IF combinacion.tipo_descuento = "PORCENTAJE"
                    THEN DMul(precio_actual,
                              DSub(Dec(1), DDiv(Dec(combinacion.valor_descuento), Dec(100))))
                    ELSE DMax(DSub(precio_actual, Dec(combinacion.valor_descuento)), Dec(0))
             IN  {<<nuevo_precio, Some(DescriptorBase("COMBINACION", combinacion))>>}

(***************************************************************************)
(* PrecioService.calcular_precio                                           *)
(***************************************************************************)
\* TIPO_REGLA_CHOICES, in stage order
Orden0 == <<"CANAL", "ESCALA_UNIDADES", "ESCALA_MONTO", "MONTO_PEDIDO", "COMBINACION">>

\* Python truth value of an optional Decimal / an optional list
Verdadero(opt) == opt # Null /\ opt[1] # 0
VerdaderaLista(opt) == opt # Null /\ opt[1] # <<>>

\* one stage of a calculation: whether it was called, the price it returned, what it applied
Paso(evaluada, par) == [evaluada |-> evaluada, precio |-> par[1], regla |-> par[2]]

\* reglas_aplicadas.insert(0, ...): newest first
RECURSIVE ReglasAplicadasAlFrente(_, _)
ReglasAplicadasAlFrente(pasos, n) ==
    IF n = 0 THEN <<>>
    ELSE IF pasos[n].regla = Null THEN ReglasAplicadasAlFrente(pasos, n - 1)
    ELSE <<pasos[n].regla[1]>> \o ReglasAplicadasAlFrente(pasos, n - 1)

\* append without the "if regla" test: a stage called without a winner appends its None
RECURSIVE ReglasAplicadasSinPrueba(_, _)
ReglasAplicadasSinPrueba(pasos, n) ==
    IF n = 0 THEN <<>>
    ELSE IF ~pasos[n].evaluada THEN ReglasAplicadasSinPrueba(pasos, n - 1)
    ELSE Append(ReglasAplicadasSinPrueba(pasos, n - 1),
                IF pasos[n].regla = Null THEN [tipo |-> Orden0[n]] ELSE pasos[n].regla[1])

\* the descriptors appended to reglas_aplicadas, in order
RECURSIVE ReglasAplicadas(_, _)
ReglasAplicadas(pasos, n) ==
    IF n = 0 THEN <<>>
    ELSE IF pasos[n].regla = Null THEN ReglasAplicadas(pasos, n - 1)
    ELSE Append(ReglasAplicadas(pasos, n - 1), pasos[n].regla[1])

\* 3.1: if canal: _aplicar_regla_canal(lista, articulo, precio_actual, canal)
PasoCanal(sol, lista, articulo, precio_actual) ==
    IF sol.canal # NoCanal
    THEN {Paso(TRUE, x) : x \in _aplicar_regla_canal(lista, articulo, precio_actual, sol.canal)}
    ELSE {Paso(FALSE, <<precio_actual, Null>>)}

\* 3.2: _aplicar_regla_escala_unidades(lista, articulo, precio_actual, cantidad)
PasoEscalaUnidades(sol, lista, articulo, precio_actual) ==
    {Paso(TRUE, x) :
        x \in _aplicar_regla_escala_unidades(lista, articulo, precio_actual, Dec(sol.cantidad))}

\* monto_item = precio_base * cantidad
PasoEscalaMontoSobreBase(sol, lista, articulo, precio_actual) ==
    LET precio_articulo == CHOOSE p \in precios :
                                p.lista_precio = lista.id /\ p.articulo = articulo.id
        monto_item == DMul(Dec(precio_articulo.precio_base), Dec(sol.cantidad))
    IN  {Paso(TRUE, x) :
            x \in _aplicar_regla_escala_monto(lista, articulo, precio_actual, monto_item)}

\* 3.3: monto_item = precio_actual * cantidad; _aplicar_regla_escala_monto(..., monto_item)
PasoEscalaMonto(sol, lista, articulo, precio_actual) ==
    LET monto_item == DMul(precio_actual, Dec(sol.cantidad))
    IN  {Paso(TRUE, x) :
            x \in _aplicar_regla_escala_monto(lista, articulo, precio_actual, monto_item)}

\* 3.4: if monto_pedido: _aplicar_regla_monto_pedido(lista, articulo, precio_actual, monto_pedido)
PasoMontoPedido(sol, lista, articulo, precio_actual) ==
    IF Verdadero(sol.monto_pedido)
    THEN {Paso(TRUE, x) :
            x \in _aplicar_regla_monto_pedido(lista, articulo, precio_actual,
                                              Dec(sol.monto_pedido[1]))}
    ELSE {Paso(FALSE, <<precio_actual, Null>>)}

\* 3.5: if items_pedido: _aplicar_regla_combinacion(lista, articulo, precio_actual, items_pedido)
PasoCombinacion(sol, lista, articulo, precio_actual) ==
    IF VerdaderaLista(sol.items_pedido)
    THEN {Paso(TRUE, x) :
            x \in _aplicar_regla_combinacion(lista, articulo, precio_actual,
                                             sol.items_pedido[1])}
    ELSE {Paso(FALSE, <<precio_actual, Null>>)}

\* the five stages from precio_base: the set of stage sequences the call may go through
Etapas(sol, lista, articulo, precio_base) ==
    UNION {UNION {UNION {UNION {
        {<<e1, e2, e3, e4, e5>> : e5 \in PasoCombinacion(sol, lista, articulo, e4.precio)} :
            e4 \in PasoMontoPedido(sol, lista, articulo, e3.precio)} :
            e3 \in PasoEscalaMonto(sol, lista, articulo, e2.precio)} :
            e2 \in PasoEscalaUnidades(sol, lista, articulo, e1.precio)} :
            e1 \in PasoCanal(sol, lista, articulo, precio_base)}

\* the returned dict, with the stages gone through kept beside it
\* bajo_costo = precio_actual <= articulo.ultimo_costo
BajoCostoOIgual(precio_actual, articulo) ==
    DLe(precio_actual, Dec(articulo.ultimo_costo))

\* 4: bajo_costo = precio_actual < articulo.ultimo_costo
BajoCosto(precio_actual, articulo) ==
    DLt(precio_actual, Dec(articulo.ultimo_costo))

\* the percentage taken over the final price
PorcentajeSobreFinal(precio_base, precio_actual) ==
    IF DLt(Dec(0), precio_actual)
    THEN float(DMul(DDiv(DSub(precio_base, precio_actual), precio_actual), Dec(100)))
    ELSE Dec(0)

\* 'porcentaje_descuento': ... if precio_base > 0 else 0
PorcentajeDescuento(precio_base, precio_actual) ==
    IF DLt(Dec(0), precio_base)
    THEN float(DMul(DDiv(DSub(precio_base, precio_actual), precio_base), Dec(100)))
    ELSE Dec(0)

Resultado(sol, lista, articulo, precio_articulo, pasos) ==
    LET precio_base == Dec(precio_articulo.precio_base)
        precio_actual == pasos[5].precio
        cantidad == Dec(sol.cantidad)
        bajo_costo == BajoCosto(precio_actual, articulo)
        autorizado == IF bajo_costo THEN precio_articulo.autorizado_bajo_costo ELSE TRUE
    IN  [articulo_id |-> sol.articulo_id,
         articulo_nombre |-> articulo.nombre,
         cantidad |-> float(cantidad),
         precio_base |-> float(precio_base),
         precio_final |-> float(precio_actual),
         monto_total |-> float(DMul(precio_actual, cantidad)),
         descuento_total |-> float(DSub(precio_base, precio_actual)),
         porcentaje_descuento |-> PorcentajeDescuento(precio_base, precio_actual),
         reglas_aplicadas |-> ReglasAplicadas(pasos, 5),
         bajo_costo |-> bajo_costo,
         autorizado_bajo_costo |-> autorizado,
         ultimo_costo |-> float(Dec(articulo.ultimo_costo)),
         descuento_proveedor |-> float(Dec(precio_articulo.descuento_proveedor)),
         lista_precio |-> lista.nombre]

\* the row written with the base price in the place of the final price
_registrar_auditoria_calculo_base(articulo_id, precio_base, precio_final, reglas_aplicadas, bajo_costo) ==
    [tipo_operacion |-> "CALCULO",
     tabla |-> "precio_calculo",
     registro_id |-> articulo_id,
     datos_nuevos |-> [articulo_id |-> articulo_id,
                       precio_base |-> float(precio_base),
                       precio_final |-> float(precio_base),
                       reglas_aplicadas |-> reglas_aplicadas,
                       bajo_costo |-> bajo_costo]]

\* AuditoriaPrecios.objects.create(...) of _registrar_auditoria_calculo: the row written
_registrar_auditoria_calculo(articulo_id, precio_base, precio_final, reglas_aplicadas, bajo_costo) ==
    [tipo_operacion |-> "CALCULO",
     tabla |-> "precio_calculo",
     registro_id |-> articulo_id,
     datos_nuevos |-> [articulo_id |-> articulo_id,
                       precio_base |-> float(precio_base),
                       precio_final |-> float(precio_final),
                       reglas_aplicadas |-> reglas_aplicadas,
                       bajo_costo |-> bajo_costo]]

\* PrecioService.validar_costo
validar_costo(articulo, precio_propuesto) ==
    IF DLe(Dec(articulo.ultimo_costo), precio_propuesto)
    THEN [valido |-> TRUE, requiere_autorizacion |-> FALSE]
    ELSE [valido |-> FALSE, requiere_autorizacion |-> TRUE]

\* a price entry of the item looked up in any list
PrecioArticuloDeCualquierLista(lista, articulo) ==
    {p \in precios : p.articulo = articulo.id}

\* PrecioArticulo.objects.filter(lista_precio=lista, articulo=articulo): at most one row
\* (unique_together), so .first() is that row or None
PrecioArticuloDe(lista, articulo) ==
    {p \in precios : p.lista_precio = lista.id /\ p.articulo = articulo.id}

Fallo(sol, mensaje) ==
    [sol |-> sol, ok |-> FALSE, error |-> mensaje]

\* the outcomes of calcular_precio(sol) up to the audit write:
\* [ok, ...] records, ok = FALSE standing for the ValidationError raised
Calculos(sol) ==
    LET vigentes == obtener_lista_vigente(sol.empresa_id, sol.sucursal_id, sol.canal,
                                          sol.fecha, sol.hoy)
    IN  IF vigentes = {} THEN {Fallo(sol, "sin_lista")}
        ELSE UNION {
            LET encontrados == {a \in ArticuloPorId(sol.articulo_id) : a.activo}
            IN  IF encontrados = {} THEN {Fallo(sol, "sin_articulo")}
                ELSE LET articulo == CHOOSE a \in encontrados : TRUE
                         de_lista == PrecioArticuloDe(lista, articulo)
                     IN  IF de_lista = {} THEN {Fallo(sol, "sin_precio")}
                         ELSE UNION {
                            {[sol |-> sol, ok |-> TRUE,
                              lista |-> lista.id,
                              articulo |-> articulo.id,
                              precio_base |-> Dec(precio_articulo.precio_base),
                              precio_articulo |-> precio_articulo.id,
                              pasos |-> pasos,
                              res |-> Resultado(sol, lista, articulo, precio_articulo, pasos)] :
                                pasos \in Etapas(sol, lista, articulo,
                                                 Dec(precio_articulo.precio_base))} :
                            precio_articulo \in de_lista}
            : lista \in vigentes}

\* no call of calcular_precio yet; no response of the resolver or the batch view yet
SinSolicitud == [ok |-> FALSE, error |-> "ninguna"]
SinConsulta == [op |-> "ninguna"]

\* a call that also saves the computed bajo_costo on the base-price record
calcular_precio_guardando(sol) ==
    /\ \E c \in Calculos(sol), falla_auditoria \in BOOLEAN :
        IF ~c.ok
        THEN /\ ultimo' = c
             /\ auditoria' = auditoria
             /\ precios' = precios
        ELSE IF falla_auditoria
        THEN /\ ultimo' = Fallo(sol, "auditoria")
             /\ auditoria' = auditoria
             /\ precios' = precios
        ELSE /\ ultimo' = c
             /\ auditoria' = Append(auditoria,
                    _registrar_auditoria_calculo(sol.articulo_id, c.precio_base,
                        c.pasos[5].precio, c.res.reglas_aplicadas, c.res.bajo_costo))
             /\ precios' = {IF p.id = c.precio_articulo
                            THEN [p EXCEPT !.bajo_costo = c.res.bajo_costo]
                            ELSE p : p \in precios}
    /\ anteriores' = IF ultimo = SinSolicitud THEN anteriores ELSE Append(anteriores, ultimo)
    /\ UNCHANGED <<articulos, listas, reglas, combinaciones, consulta, escritores>>

\* One call of calcular_precio.  falla_auditoria: the audit sink raises on the write.
calcular_precio(sol) ==
    /\ \E c \in Calculos(sol), falla_auditoria \in BOOLEAN :
        IF ~c.ok
        THEN /\ ultimo' = c
             /\ auditoria' = auditoria
        ELSE IF falla_auditoria
        THEN /\ ultimo' = Fallo(sol, "auditoria")
             /\ auditoria' = auditoria
        ELSE /\ ultimo' = c
             /\ auditoria' = Append(auditoria,
                    _registrar_auditoria_calculo(sol.articulo_id, c.precio_base,
                        c.pasos[5].precio, c.res.reglas_aplicadas, c.res.bajo_costo))
    /\ anteriores' = IF ultimo = SinSolicitud THEN anteriores ELSE Append(anteriores, ultimo)
    /\ UNCHANGED <<articulos, listas, precios, reglas, combinaciones, consulta, escritores>>

(***************************************************************************)
(* One call of PrecioService.obtener_lista_vigente, as the view            *)
(* ListaPrecioViewSet.vigentes, the batch view and the tests make it       *)
(***************************************************************************)
\* the response records the arguments and the pk of the list returned, 0 for None
ListaVigente(args) ==
    /\ LET vigentes == obtener_lista_vigente(args.empresa_id, args.sucursal_id, args.canal,
                                              args.fecha, args.hoy)
       IN  IF vigentes = {}
           THEN consulta' = [op |-> "lista", args |-> args, lista |-> 0]
           ELSE \E l \in vigentes : consulta' = [op |-> "lista", args |-> args, lista |-> l.id]
    /\ UNCHANGED <<articulos, listas, precios, reglas, combinaciones, auditoria, ultimo,
                   anteriores, escritores>>

(***************************************************************************)
(* CalculoPrecioMultipleView.post: the batch calculation                   *)
(***************************************************************************)
\* the sum of the base prices of the lines, the quantities left out
RECURSIVE MontoTotalSinCantidad(_, _)
MontoTotalSinCantidad(args, n) ==
    IF n = 0 THEN {0}
    ELSE LET item == args.items[n]
             articulo == CHOOSE a \in ArticuloPorId(item.articulo_id) : TRUE
             vigentes == obtener_lista_vigente(args.empresa_id, args.sucursal_id,
                                               args.canal, args.fecha, args.hoy)
             sumandos ==
                IF vigentes = {} THEN {0}
                ELSE UNION {
                    IF PrecioArticuloDe(lista, articulo) = {} THEN {0}
                    ELSE {p.precio_base : p \in PrecioArticuloDe(lista, articulo)}
                    : lista \in vigentes}
         IN  {m + x : m \in MontoTotalSinCantidad(args, n - 1), x \in sumandos}

\* the first loop over the n first lines: the values monto_total may reach.  Every line
\* resolves the list again; a line without valid list or without entry adds nothing.
\* All items exist (the caller has checked).
RECURSIVE MontoTotal(_, _)
MontoTotal(args, n) ==
    IF n = 0 THEN {0}
    ELSE LET item == args.items[n]
             articulo == CHOOSE a \in ArticuloPorId(item.articulo_id) : TRUE
             vigentes == obtener_lista_vigente(args.empresa_id, args.sucursal_id,
                                               args.canal, args.fecha, args.hoy)
             sumandos ==
                IF vigentes = {} THEN {0}
                ELSE UNION {
                    IF PrecioArticuloDe(lista, articulo) = {} THEN {0}
                    ELSE {p.precio_base * item.cantidad :
                            p \in PrecioArticuloDe(lista, articulo)}
                    : lista \in vigentes}
         IN  {m + x : m \in MontoTotal(args, n - 1), x \in sumandos}

\* the arguments of the call of calcular_precio for line k
SolicitudDeLinea(args, monto_total, k) ==
    [empresa_id |-> args.empresa_id, articulo_id |-> args.items[k].articulo_id,
     cantidad |-> args.items[k].cantidad, sucursal_id |-> args.sucursal_id,
     canal |-> args.canal, monto_pedido |-> Some(monto_total),
     items_pedido |-> Some(args.items), fecha |-> args.fecha, hoy |-> args.hoy]

\* the outcomes of one call of calcular_precio, the audit write included
Respuestas(sol) ==
    LET calculos == Calculos(sol)
    IN  calculos \cup {Fallo(sol, "auditoria") : c \in {x \in calculos : x.ok}}

\* the second loop over the n first lines: the sequences of outcomes of its calls
RECURSIVE LlamadasDeLote(_, _, _)
LlamadasDeLote(args, monto_total, n) ==
    IF n = 0 THEN {<<>>}
    ELSE {Append(previas, r) :
            previas \in LlamadasDeLote(args, monto_total, n - 1),
            r \in Respuestas(SolicitudDeLinea(args, monto_total, n))}

\* the audit rows the calls of a sequence of outcomes have written
RECURSIVE RegistrosDe(_, _)
RegistrosDe(llamadas, n) ==
    IF n = 0 THEN <<>>
    ELSE IF llamadas[n].ok
    THEN Append(RegistrosDe(llamadas, n - 1),
                _registrar_auditoria_calculo(llamadas[n].sol.articulo_id,
                    llamadas[n].precio_base, llamadas[n].pasos[5].precio,
                    llamadas[n].res.reglas_aplicadas, llamadas[n].res.bajo_costo))
    ELSE RegistrosDe(llamadas, n - 1)

\* resultados / errores of the response
RECURSIVE ResultadosDe(_, _)
ResultadosDe(llamadas, n) ==
    IF n = 0 THEN <<>>
    ELSE IF llamadas[n].ok THEN Append(ResultadosDe(llamadas, n - 1), llamadas[n].res)
    ELSE ResultadosDe(llamadas, n - 1)

RECURSIVE ErroresDe(_, _)
ErroresDe(llamadas, n) ==
    IF n = 0 THEN <<>>
    ELSE IF ~llamadas[n].ok
    THEN Append(ErroresDe(llamadas, n - 1),
                [articulo_id |-> llamadas[n].sol.articulo_id, error |-> llamadas[n].error])
    ELSE ErroresDe(llamadas, n - 1)

\* One request of the batch view.  Articulo.objects.get in the first loop is outside
\* every try: a line naming an unknown item ends the request with the exception.
CalculoPrecioMultiple(args) ==
    LET n == Len(args.items)
    IN  IF \E k \in 1..n : ArticuloPorId(args.items[k].articulo_id) = {}
        THEN /\ consulta' = [op |-> "lote", args |-> args, ok |-> FALSE]
             /\ UNCHANGED <<articulos, listas, precios, reglas, combinaciones, auditoria,
                            ultimo, anteriores, escritores>>
        ELSE \E monto_total \in MontoTotal(args, n) :
             \E llamadas \in LlamadasDeLote(args, monto_total, n) :
                /\ consulta' = [op |-> "lote", args |-> args, ok |-> TRUE,
                                monto_total |-> float(Dec(monto_total)),
                                total_items |-> n,
                                items_procesados |-> Len(ResultadosDe(llamadas, n)),
                                resultados |-> ResultadosDe(llamadas, n),
                                errores |-> ErroresDe(llamadas, n)]
                /\ auditoria' = auditoria \o RegistrosDe(llamadas, n)
                /\ IF n = 0
                   THEN UNCHANGED <<ultimo, anteriores>>
                   ELSE /\ ultimo' = llamadas[n]
                        /\ anteriores' =
                            (IF ultimo = SinSolicitud THEN anteriores
                             ELSE Append(anteriores, ultimo)) \o SubSeq(llamadas, 1, n - 1)
                /\ UNCHANGED <<articulos, listas, precios, reglas, combinaciones,
                               escritores>>

(***************************************************************************)
(* PrecioService.registrar_descuento_proveedor                             *)
(***************************************************************************)
\* the bounds taken as exclusive
DescuentoEnRangoExclusivo(descuento_porcentaje) ==
    50 < descuento_porcentaje /\ descuento_porcentaje < 70

\* 50 <= descuento_porcentaje <= 70
DescuentoEnRango(descuento_porcentaje) ==
    50 <= descuento_porcentaje /\ descuento_porcentaje <= 70

\* the instance without the assignment of autorizado_bajo_costo
InstanciaSinAutorizar(precio_articulo, op) ==
    [precio_articulo EXCEPT !.descuento_proveedor = op.descuento_porcentaje,
                            !.observaciones = op.observaciones]

\* the instance after the three assignments
InstanciaConDescuento(precio_articulo, op) ==
    [precio_articulo EXCEPT !.descuento_proveedor = op.descuento_porcentaje,
                            !.autorizado_bajo_costo = TRUE,
                            !.observaciones = op.observaciones]

\* precio_articulo_post_save: the audit row of a save of an existing row; pre_save has
\* read datos_anteriores from the table
RegistroDeModificacion(instancia) ==
    [tipo_operacion |-> "MODIFICACION",
     tabla |-> "precio_articulo",
     registro_id |-> instancia.id,
     datos_anteriores |-> CHOOSE p \in precios : p.id = instancia.id,
     datos_nuevos |-> instancia]

\* instance.save(): every column of the row is written from the instance
Guardada(instancia) ==
    {IF p.id = instancia.id THEN instancia ELSE p : p \in precios}

Hecho(op, ok, error) == [pc |-> "hecho", op |-> op, ok |-> ok, error |-> error]

\* The whole call by writer w, no other writer in between.  The audit row of the save
\* is written inside the transaction: when that write raises, the save is rolled back.
registrar_descuento_proveedor(w, op) ==
    /\ escritores[w].pc = "libre"
    /\ LET encontrados == {p \in precios : p.id = op.precio_articulo_id}
       IN  IF ~DescuentoEnRango(op.descuento_porcentaje)
           THEN /\ escritores' = [escritores EXCEPT ![w] = Hecho(op, FALSE, "rango")]
                /\ UNCHANGED <<precios, auditoria>>
           ELSE IF encontrados = {}
           THEN /\ escritores' = [escritores EXCEPT ![w] = Hecho(op, FALSE, "no_existe")]
                /\ UNCHANGED <<precios, auditoria>>
           ELSE \E falla_auditoria \in BOOLEAN :
                LET instancia == InstanciaConDescuento(CHOOSE p \in encontrados : TRUE, op)
                IN  IF falla_auditoria
                    THEN /\ escritores' = [escritores EXCEPT
                                                ![w] = Hecho(op, FALSE, "auditoria")]
                         /\ UNCHANGED <<precios, auditoria>>
                    ELSE /\ escritores' = [escritores EXCEPT ![w] = Hecho(op, TRUE, "")]
                         /\ precios' = Guardada(instancia)
                         /\ auditoria' = Append(auditoria, RegistroDeModificacion(instancia))
    /\ UNCHANGED <<articulos, listas, reglas, combinaciones, ultimo, anteriores, consulta>>

\* The call as the statements it sends to the store: the range test and
\* PrecioArticulo.objects.get, which takes no lock on the row it reads ...
registrar_leer(w, op) ==
    /\ escritores[w].pc = "libre"
    /\ LET encontrados == {p \in precios : p.id = op.precio_articulo_id}
       IN  escritores' = [escritores EXCEPT ![w] =
               IF ~DescuentoEnRango(op.descuento_porcentaje) THEN Hecho(op, FALSE, "rango")
               ELSE IF encontrados = {} THEN Hecho(op, FALSE, "no_existe")
               ELSE [pc |-> "leido", op |-> op,
                     instancia |-> CHOOSE p \in encontrados : TRUE]]
    /\ UNCHANGED <<articulos, listas, precios, reglas, combinaciones, auditoria, ultimo,
                   anteriores, consulta>>

\* ... and the assignments and save() on the instance that was read
registrar_guardar(w) ==
    /\ escritores[w].pc = "leido"
    /\ \E falla_auditoria \in BOOLEAN :
        LET op == escritores[w].op
            instancia == InstanciaConDescuento(escritores[w].instancia, op)
        IN  IF falla_auditoria
            THEN /\ escritores' = [escritores EXCEPT ![w] = Hecho(op, FALSE, "auditoria")]
                 /\ UNCHANGED <<precios, auditoria>>
            ELSE /\ escritores' = [escritores EXCEPT ![w] = Hecho(op, TRUE, "")]
                 /\ precios' = Guardada(instancia)
                 /\ auditoria' = Append(auditoria, RegistroDeModificacion(instancia))
    /\ UNCHANGED <<articulos, listas, reglas, combinaciones, ultimo, anteriores, consulta>>

(***************************************************************************)
(* PrecioArticuloSerializer.validate and the update of PrecioArticuloViewSet *)
(***************************************************************************)
\* not bajo_costo or not autorizado
SinAutorizacion(bajo_costo, autorizado) ==
    ~bajo_costo \/ ~autorizado

\* validate(data): the data to save, or the validation error
validate(data, articulo) ==
    IF data.precio_base < articulo.ultimo_costo
    THEN IF SinAutorizacion(data.bajo_costo, data.autorizado_bajo_costo)
              /\ data.descuento_proveedor < 50
         THEN [valido |-> FALSE, data |-> data]
         ELSE [valido |-> TRUE, data |-> [data EXCEPT !.bajo_costo = TRUE]]
    ELSE [valido |-> TRUE, data |-> data]

\* the instance after the serializer has set the validated data on it
InstanciaActualizada(precio_articulo, data) ==
    [precio_articulo EXCEPT !.precio_base = data.precio_base,
                            !.bajo_costo = data.bajo_costo,
                            !.autorizado_bajo_costo = data.autorizado_bajo_costo,
                            !.descuento_proveedor = data.descuento_proveedor]

\* PUT of a base-price record: get_object, is_valid, save.  The view opens no
\* transaction, so a failing audit write of post_save leaves the row saved.
actualizar_precio(w, op) ==
    /\ escritores[w].pc = "libre"
    /\ LET encontrados == {p \in precios : p.id = op.precio_articulo_id}
           precio_articulo == CHOOSE p \in encontrados : TRUE
           articulo == CHOOSE a \in articulos : a.id = precio_articulo.articulo
           validado == validate(op, articulo)
           instancia == InstanciaActualizada(precio_articulo, validado.data)
       IN  IF encontrados = {}
           THEN /\ escritores' = [escritores EXCEPT ![w] = Hecho(op, FALSE, "no_existe")]
                /\ UNCHANGED <<precios, auditoria>>
           ELSE IF ~validado.valido
           THEN /\ escritores' = [escritores EXCEPT ![w] = Hecho(op, FALSE, "costo")]
                /\ UNCHANGED <<precios, auditoria>>
           ELSE \E falla_auditoria \in BOOLEAN :
                /\ precios' = Guardada(instancia)
                /\ IF falla_auditoria
                   THEN /\ escritores' = [escritores EXCEPT
                                               ![w] = Hecho(op, FALSE, "auditoria")]
                        /\ UNCHANGED auditoria
                   ELSE /\ escritores' = [escritores EXCEPT ![w] = Hecho(op, TRUE, "")]
                        /\ auditoria' = Append(auditoria,
                                                RegistroDeModificacion(instancia))
    /\ UNCHANGED <<articulos, listas, reglas, combinaciones, ultimo, anteriores, consulta>>

(***************************************************************************)
(* ListaPrecio.clean, ListaPrecioSerializer.validate and the creation of   *)
(* price lists                                                             *)
(***************************************************************************)
\* timezone.timedelta(days=36500)
DiasSinFin == 36500

\* fecha_fin or today + 36500 days
FinDeVigencia(lista, hoy) ==
    IF lista.fecha_fin = Null THEN hoy + DiasSinFin ELSE lista.fecha_fin[1]

\* inicio1 <= fin2 and inicio2 <= fin1
_vigencias_se_solapan(lista, otra_lista, hoy) ==
    /\ lista.fecha_inicio <= FinDeVigencia(otra_lista, hoy)
    /\ otra_lista.fecha_inicio <= FinDeVigencia(lista, hoy)

\* fecha_fin and fecha_fin < fecha_inicio
FechasInvertidas(lista) ==
    lista.fecha_fin # Null /\ lista.fecha_fin[1] < lista.fecha_inicio

\* the active lists of the company, of the branch when the list has one, without itself
listas_existentes(lista) ==
    {l \in listas : /\ l.empresa = lista.empresa
                    /\ l.activo
                    /\ (lista.sucursal # 0 => l.sucursal = lista.sucursal)
                    /\ l.id # lista.id}

\* ListaPrecio.clean: TRUE when it raises nothing
clean(lista, hoy) ==
    /\ ~FechasInvertidas(lista)
    /\ \A l \in listas_existentes(lista) : ~_vigencias_se_solapan(lista, l, hoy)

\* ListaPrecioSerializer.validate: TRUE when it raises nothing
validate_lista(data) ==
    ~FechasInvertidas(data)

\* the row of a list made from the data; the store gives it the next id
ListaNueva(op) ==
    [id |-> 1 + CHOOSE n \in {l.id : l \in listas} : \A l \in listas : l.id <= n,
     nombre |-> op.nombre, empresa |-> op.empresa, sucursal |-> op.sucursal,
     canal |-> op.canal, fecha_inicio |-> op.fecha_inicio, fecha_fin |-> op.fecha_fin,
     activo |-> op.activo]

\* lista_precio_post_save of a new row
RegistroDeLista(lista) ==
    [tipo_operacion |-> "CREACION",
     tabla |-> "lista_precio",
     registro_id |-> lista.id,
     datos_anteriores |-> Null,
     datos_nuevos |-> lista]

\* POST /listas-precios/: is_valid runs validate, save creates the row.  The view opens
\* no transaction, so a failing audit write of post_save leaves the row created.
crear_lista(w, op) ==
    /\ escritores[w].pc = "libre"
    /\ IF ~validate_lista(op)
       THEN /\ escritores' = [escritores EXCEPT ![w] = Hecho(op, FALSE, "fechas")]
            /\ UNCHANGED <<listas, auditoria>>
       ELSE \E falla_auditoria \in BOOLEAN :
            /\ listas' = listas \cup {ListaNueva(op)}
            /\ IF falla_auditoria
               THEN /\ escritores' = [escritores EXCEPT
                                           ![w] = Hecho(op, FALSE, "auditoria")]
                    /\ UNCHANGED auditoria
               ELSE /\ escritores' = [escritores EXCEPT ![w] = Hecho(op, TRUE, "")]
                    /\ auditoria' = Append(auditoria, RegistroDeLista(ListaNueva(op)))
    /\ UNCHANGED <<articulos, precios, reglas, combinaciones, ultimo, anteriores, consulta>>

\* the add form of the admin site: the model form runs full_clean, which calls clean;
\* the admin view is one transaction, rolled back when the audit write fails
crear_lista_admin(w, op, hoy) ==
    /\ escritores[w].pc = "libre"
    /\ IF ~clean(ListaNueva(op), hoy)
       THEN /\ escritores' = [escritores EXCEPT ![w] = Hecho(op, FALSE, "clean")]
            /\ UNCHANGED <<listas, auditoria>>
       ELSE \E falla_auditoria \in BOOLEAN :
            IF falla_auditoria
            THEN /\ escritores' = [escritores EXCEPT ![w] = Hecho(op, FALSE, "auditoria")]
                 /\ UNCHANGED <<listas, auditoria>>
            ELSE /\ escritores' = [escritores EXCEPT ![w] = Hecho(op, TRUE, "")]
                 /\ listas' = listas \cup {ListaNueva(op)}
                 /\ auditoria' = Append(auditoria, RegistroDeLista(ListaNueva(op)))
    /\ UNCHANGED <<articulos, precios, reglas, combinaciones, ultimo, anteriores, consulta>>

(***************************************************************************)
(* CombinacionProductoViewSet: creation of a bundle, agregar_detalle       *)
(***************************************************************************)
\* the row of a bundle made from the data; detalles is read-only in the serializer, so
\* the bundle is created without requirements
CombinacionNueva(op) ==
    [id |-> op.nombre, nombre |-> op.nombre, lista_precio |-> op.lista_precio,
     cantidad_minima |-> op.cantidad_minima, tipo_descuento |-> op.tipo_descuento,
     valor_descuento |-> op.valor_descuento, activo |-> op.activo, detalles |-> <<>>]

\* combinacion_post_save
RegistroDeCombinacion(tipo_operacion, combinacion) ==
    [tipo_operacion |-> tipo_operacion,
     tabla |-> "combinacion_producto",
     registro_id |-> combinacion.id,
     datos_anteriores |-> Null,
     datos_nuevos |-> combinacion]

\* POST /combinaciones/: is_valid, save.  The view opens no transaction, so a failing
\* audit write of post_save leaves the row created.
crear_combinacion(w, op) ==
    /\ escritores[w].pc = "libre"
    /\ \E falla_auditoria \in BOOLEAN :
        /\ combinaciones' = Append(combinaciones, CombinacionNueva(op))
        /\ IF falla_auditoria
           THEN /\ escritores' = [escritores EXCEPT ![w] = Hecho(op, FALSE, "auditoria")]
                /\ UNCHANGED auditoria
           ELSE /\ escritores' = [escritores EXCEPT ![w] = Hecho(op, TRUE, "")]
                /\ auditoria' = Append(auditoria,
                                        RegistroDeCombinacion("CREACION",
                                                              CombinacionNueva(op)))
    /\ UNCHANGED <<articulos, listas, precios, reglas, ultimo, anteriores, consulta>>

\* PATCH /combinaciones/{pk}/ with a new cantidad_minima: get_object, is_valid, save
actualizar_cantidad_minima(w, op) ==
    /\ escritores[w].pc = "libre"
    /\ LET posiciones == {i \in 1..Len(combinaciones) : combinaciones[i].id = op.pk}
           guardadas == [i \in 1..Len(combinaciones) |->
                            IF i \in posiciones
                            THEN [combinaciones[i] EXCEPT
                                    !.cantidad_minima = op.cantidad_minima]
                            ELSE combinaciones[i]]
       IN  IF posiciones = {}
           THEN /\ escritores' = [escritores EXCEPT ![w] = Hecho(op, FALSE, "no_existe")]
                /\ UNCHANGED <<combinaciones, auditoria>>
           ELSE \E falla_auditoria \in BOOLEAN :
                /\ combinaciones' = guardadas
                /\ IF falla_auditoria
                   THEN /\ escritores' = [escritores EXCEPT
                                               ![w] = Hecho(op, FALSE, "auditoria")]
                        /\ UNCHANGED auditoria
                   ELSE /\ escritores' = [escritores EXCEPT ![w] = Hecho(op, TRUE, "")]
                        /\ auditoria' =
                            Append(auditoria,
                                   RegistroDeCombinacion("MODIFICACION",
                                        guardadas[CHOOSE i \in posiciones : TRUE]))
    /\ UNCHANGED <<articulos, listas, precios, reglas, ultimo, anteriores, consulta>>

\* POST /combinaciones/{pk}/agregar_detalle/: get_object, is_valid, save(combinacion=...)
agregar_detalle(w, op) ==
    /\ escritores[w].pc = "libre"
    /\ LET posiciones == {i \in 1..Len(combinaciones) : combinaciones[i].id = op.pk}
       IN  IF posiciones = {}
           THEN /\ escritores' = [escritores EXCEPT ![w] = Hecho(op, FALSE, "no_existe")]
                /\ UNCHANGED combinaciones
           ELSE /\ escritores' = [escritores EXCEPT ![w] = Hecho(op, TRUE, "")]
                /\ combinaciones' =
                    [i \in 1..Len(combinaciones) |->
                        IF i \in posiciones
                        THEN [combinaciones[i] EXCEPT
                                !.detalles = Append(combinaciones[i].detalles, op.detalle)]
                        ELSE combinaciones[i]]
    /\ UNCHANGED <<articulos, listas, precios, reglas, auditoria, ultimo, anteriores,
                   consulta>>

(***************************************************************************)
(* PrecioArticuloViewSet.carga_masiva, one row in the payload              *)
(***************************************************************************)
\* the row of the list and the item, if there is one
FilaDeCarga(tabla, op) ==
    {p \in tabla : p.lista_precio = op.lista_precio_id /\ p.articulo = op.articulo_id}

\* update_or_create: the defaults written over the row found, or a new row
FilaCargada(tabla, op) ==
    IF FilaDeCarga(tabla, op) # {}
    THEN [(CHOOSE p \in FilaDeCarga(tabla, op) : TRUE) EXCEPT
              !.precio_base = op.precio_base,
              !.bajo_costo = FALSE,
              !.autorizado_bajo_costo = FALSE,
              !.descuento_proveedor = 0]
    ELSE [id |-> 1 + CHOOSE n \in {p.id : p \in tabla} : \A p \in tabla : p.id <= n,
          lista_precio |-> op.lista_precio_id, articulo |-> op.articulo_id,
          precio_base |-> op.precio_base, bajo_costo |-> FALSE,
          autorizado_bajo_costo |-> FALSE, descuento_proveedor |-> 0,
          observaciones |-> ""]

\* precio_articulo_post_save for either case
RegistroDeCarga(tabla, op) ==
    IF FilaDeCarga(tabla, op) # {}
    THEN RegistroDeModificacion(FilaCargada(tabla, op))
    ELSE [tipo_operacion |-> "CREACION",
          tabla |-> "precio_articulo",
          registro_id |-> FilaCargada(tabla, op).id,
          datos_anteriores |-> Null,
          datos_nuevos |-> FilaCargada(tabla, op)]

\* update_or_create locks the row it finds and runs in its own savepoint, so the step
\* is one statement for the other writers; an exception of the row is reported in
\* errores and leaves the row as it was
carga_masiva(w, op) ==
    /\ escritores[w].pc = "libre"
    /\ IF ~\E l \in listas : l.id = op.lista_precio_id
       THEN /\ escritores' = [escritores EXCEPT ![w] = Hecho(op, FALSE, "lista")]
            /\ UNCHANGED <<precios, auditoria>>
       ELSE IF ~\E a \in articulos : a.id = op.articulo_id
       THEN /\ escritores' = [escritores EXCEPT ![w] = Hecho(op, FALSE, "articulo")]
            /\ UNCHANGED <<precios, auditoria>>
       ELSE \E falla_auditoria \in BOOLEAN :
            IF falla_auditoria
            THEN /\ escritores' = [escritores EXCEPT ![w] = Hecho(op, FALSE, "auditoria")]
                 /\ UNCHANGED <<precios, auditoria>>
            ELSE /\ escritores' = [escritores EXCEPT ![w] = Hecho(op, TRUE, "")]
                 /\ precios' = (precios \ FilaDeCarga(precios, op))
                                    \cup {FilaCargada(precios, op)}
                 /\ auditoria' = Append(auditoria, RegistroDeCarga(precios, op))
    /\ UNCHANGED <<articulos, listas, reglas, combinaciones, ultimo, anteriores, consulta>>

(***************************************************************************)
(* Bounds and the rows the initial store is drawn from                     *)
(***************************************************************************)
MaxReglas == 4          \* rows of regla_precio in the initial store
MaxCombinaciones == 3   \* rows of combinacion_producto in the initial store
MaxListas == 3          \* rows of lista_precio in the initial store of the resolver
MaxCalculos == 2        \* calls of calcular_precio in a sequence of calls
MaxEscritores == 2      \* writers of base-price records

Articulo(id, grupo, ultimo_costo, activo) ==
    [id |-> id, grupo |-> grupo, nombre |-> id, ultimo_costo |-> ultimo_costo,
     activo |-> activo]

\* items 1 and 4 in group 1, item 2 in group 2 (line 1); item 3 in group 3 (line 2)
ArticulosIniciales ==
    {Articulo(1, 1, 50, TRUE), Articulo(2, 2, 30, TRUE),
     Articulo(3, 3, 10, TRUE), Articulo(4, 1, 50, FALSE)}

Lista(id, canal, fecha_inicio) ==
    [id |-> id, nombre |-> id, empresa |-> 1, sucursal |-> 0, canal |-> canal,
     fecha_inicio |-> fecha_inicio, fecha_fin |-> Null, activo |-> TRUE]

\* list 1 sells through TIENDA; list 2, the later one, has no channel
ListasIniciales == {Lista(1, "TIENDA", 1), Lista(2, NoCanal, 2)}

ListaDe(id, empresa, sucursal, canal, fecha_inicio, fecha_fin, activo) ==
    [id |-> id, nombre |-> id, empresa |-> empresa, sucursal |-> sucursal, canal |-> canal,
     fecha_inicio |-> fecha_inicio, fecha_fin |-> fecha_fin, activo |-> activo]

\* lists of two companies, of the branches 1 and 2 and without branch, with and without
\* channel, open-ended and closed, one inactive, one starting after today
ListasPosibles ==
    ListasIniciales \cup
    {ListaDe(3, 1, 1, "TIENDA", 3, Null, TRUE),
     ListaDe(4, 1, 2, NoCanal, 3, Some(4), TRUE),
     ListaDe(5, 1, 0, "TIENDA", 4, Null, FALSE),
     ListaDe(6, 2, 0, NoCanal, 5, Null, TRUE),
     ListaDe(7, 1, 1, NoCanal, 2, Some(2), TRUE),
     ListaDe(8, 1, 0, "TIENDA", 6, Null, TRUE)}

\* calls of the resolver: company, branch or none, channel or none, date or none (today)
ConsultasDeLista ==
    [empresa_id : {1, 2}, sucursal_id : {0, 1, 2}, canal : {NoCanal, "TIENDA"},
     fecha : {Null, Some(2), Some(4), Some(6)}, hoy : {5}]

Precio(id, lista, articulo, precio_base) ==
    [id |-> id, lista_precio |-> lista, articulo |-> articulo,
     precio_base |-> precio_base, bajo_costo |-> FALSE,
     autorizado_bajo_costo |-> FALSE, descuento_proveedor |-> 0, observaciones |-> ""]

\* item 3 is given away in list 1 with the below-cost authorization stored
PreciosIniciales ==
    {Precio(1, 1, 1, 100), Precio(2, 1, 2, 40), Precio(3, 2, 1, 80), Precio(4, 1, 4, 100),
     [Precio(5, 1, 3, 0) EXCEPT !.bajo_costo = TRUE, !.autorizado_bajo_costo = TRUE]}

Regla(id, lista, tipo, prioridad, canal, linea, grupo, minimo, maximo, tipo_descuento, valor, activo) ==
    [id |-> id, nombre |-> id, lista_precio |-> lista, tipo_regla |-> tipo,
     prioridad |-> prioridad, canal |-> canal,
     linea_articulo |-> linea, grupo_articulo |-> grupo,
     cantidad_minima |-> IF tipo = "ESCALA_UNIDADES" THEN minimo ELSE Null,
     cantidad_maxima |-> IF tipo = "ESCALA_UNIDADES" THEN maximo ELSE Null,
     monto_minimo |-> IF tipo \in {"ESCALA_MONTO", "MONTO_PEDIDO"} THEN minimo ELSE Null,
     monto_maximo |-> IF tipo \in {"ESCALA_MONTO", "MONTO_PEDIDO"} THEN maximo ELSE Null,
     tipo_descuento |-> tipo_descuento, valor_descuento |-> valor, activo |-> activo]

ReglasPosibles ==
    {Regla(1, 1, "CANAL", 1, "TIENDA", 0, 0, Null, Null, "PORCENTAJE", 10, TRUE),
     Regla(2, 1, "CANAL", 2, "TIENDA", 0, 1, Null, Null, "MONTO_FIJO", 30, TRUE),
     Regla(3, 1, "CANAL", 3, "ONLINE", 0, 0, Null, Null, "PORCENTAJE", 50, TRUE),
     Regla(4, 1, "CANAL", 3, "TIENDA", 0, 0, Null, Null, "PORCENTAJE", 50, FALSE),
     Regla(5, 1, "CANAL", 1, "TIENDA", 1, 0, Null, Null, "MONTO_FIJO", 10, TRUE),
     Regla(6, 1, "ESCALA_UNIDADES", 1, NoCanal, 0, 0, Some(10), Null, "PORCENTAJE", 10, TRUE),
     Regla(7, 1, "ESCALA_UNIDADES", 2, NoCanal, 0, 0, Null, Some(1), "MONTO_FIJO", 50, TRUE),
     Regla(8, 1, "ESCALA_UNIDADES", 3, NoCanal, 2, 0, Null, Null, "PORCENTAJE", 50, TRUE),
     Regla(9, 1, "ESCALA_MONTO", 1, NoCanal, 0, 0, Some(1000), Null, "PORCENTAJE", 10, TRUE),
     Regla(10, 1, "ESCALA_MONTO", 2, NoCanal, 0, 2, Null, Some(400), "PORCENTAJE", 20, TRUE),
     Regla(11, 1, "MONTO_PEDIDO", 1, NoCanal, 2, 0, Some(100), Null, "PORCENTAJE", 10, TRUE),
     Regla(12, 1, "MONTO_PEDIDO", 2, NoCanal, 0, 0, Null, Some(100), "MONTO_FIJO", 5, TRUE),
     Regla(13, 2, "ESCALA_UNIDADES", 3, NoCanal, 0, 0, Null, Null, "PORCENTAJE", 50, TRUE)}

Detalle(articulo, grupo, linea, cantidad_requerida) ==
    [articulo |-> articulo, grupo_articulo |-> grupo, linea_articulo |-> linea,
     cantidad_requerida |-> cantidad_requerida]

Combinacion(id, lista, tipo_descuento, valor, activo, detalles) ==
    [id |-> id, nombre |-> id, lista_precio |-> lista, cantidad_minima |-> 2,
     tipo_descuento |-> tipo_descuento, valor_descuento |-> valor,
     activo |-> activo, detalles |-> detalles]

CombinacionesPosibles ==
    {Combinacion(21, 1, "PORCENTAJE", 15, TRUE, <<Detalle(0, 1, 0, 2)>>),
     Combinacion(22, 1, "MONTO_FIJO", 5, TRUE, <<Detalle(2, 0, 0, 1), Detalle(0, 0, 1, 3)>>),
     Combinacion(23, 1, "PORCENTAJE", 50, FALSE, <<Detalle(1, 0, 0, 1)>>),
     Combinacion(24, 2, "PORCENTAJE", 50, TRUE, <<Detalle(1, 0, 0, 1)>>),
     Combinacion(25, 1, "MONTO_FIJO", 90, TRUE, <<>>)}

\* the sequences without repetition of at most n elements of S
RECURSIVE Secuencias(_, _)
Secuencias(S, n) ==
    IF n = 0 THEN {<<>>}
    ELSE LET cortas == Secuencias(S, n - 1)
             SinRepetir(q) == \A i, j \in 1..Len(q) : i < j => q[i] # q[j]
         IN  cortas \cup {q \in {Append(c, x) : c \in cortas, x \in S} : SinRepetir(q)}

Item(articulo_id, cantidad) == [articulo_id |-> articulo_id, cantidad |-> cantidad]

Solicitud(articulo_id, cantidad, canal, monto_pedido, items_pedido) ==
    [empresa_id |-> 1, articulo_id |-> articulo_id, cantidad |-> cantidad,
     sucursal_id |-> 0, canal |-> canal, monto_pedido |-> monto_pedido,
     items_pedido |-> items_pedido, fecha |-> Null, hoy |-> 5]

\* requests of the rule stages
Solicitudes ==
    {Solicitud(a, q, c, m, i) :
        a \in {1, 2}, q \in {1, 10}, c \in {NoCanal, "TIENDA"},
        m \in {Null, Some(0), Some(100), Some(500)},
        i \in {Null, Some(<<Item(1, 1), Item(4, 1)>>)}}
    \cup {Solicitud(a, 1, "TIENDA", Null, Null) : a \in {3, 4, 9}}
    \cup {Solicitud(1, 1, "ONLINE", Null, Null)}

\* requests of the combination stage
SolicitudesCombinacion ==
    {Solicitud(a, 1, c, Null, i) :
        a \in {1, 2}, c \in {NoCanal, "TIENDA"},
        i \in {Null, Some(<<>>),
               Some(<<Item(1, 1), Item(4, 1)>>),
               Some(<<Item(1, 1)>>),
               Some(<<Item(2, 1), Item(1, 1), Item(1, 1)>>),
               Some(<<Item(2, 1), Item(3, 5), Item(9, 5)>>),
               Some(<<Item(9, 5), Item(1, 1), Item(4, 1)>>)}}

\* the state before any request: the catalog, the lists and the base prices fixed,
\* the rules and bundles drawn from the given families
InitCon(familia_reglas, familia_combinaciones) ==
    /\ articulos = ArticulosIniciales
    /\ listas = ListasIniciales
    /\ precios = PreciosIniciales
    /\ reglas \in familia_reglas
    /\ combinaciones \in familia_combinaciones
    /\ auditoria = <<>>
    /\ ultimo = SinSolicitud
    /\ anteriores = <<>>
    /\ consulta = SinConsulta
    /\ escritores = [w \in 1..MaxEscritores |-> [pc |-> "libre"]]

\* every store of at most MaxReglas rules, with bundle 21
Init ==
    InitCon({rs \in SUBSET ReglasPosibles : Cardinality(rs) <= MaxReglas},
            {<<CHOOSE c \in CombinacionesPosibles : c.id = 21>>})

\* one calculation against the store
CalcularPrecio ==
    \E sol \in Solicitudes :
        /\ ultimo = SinSolicitud
        /\ calcular_precio(sol)

Next == CalcularPrecio

Spec == Init /\ [][Next]_vars

\* every store of at most MaxCombinaciones bundles in any stored order,
\* without rules or with the two unit-scale rules 6 and 7
InitCombinacion ==
    InitCon({{}, {r \in ReglasPosibles : r.id \in {6, 7}}},
            Secuencias(CombinacionesPosibles, MaxCombinaciones))

CalcularPrecioCombinacion ==
    \E sol \in SolicitudesCombinacion :
        /\ ultimo = SinSolicitud
        /\ calcular_precio(sol)

NextCombinacion == CalcularPrecioCombinacion

SpecCombinacion == InitCombinacion /\ [][NextCombinacion]_vars

\* requests of a sequence of calls: three priced items, one item without price in the
\* resolved list, one request without valid list
SolicitudesSecuencia ==
    {Solicitud(a, 1, "TIENDA", Null, Null) : a \in {1, 2, 3}}
    \cup {Solicitud(2, 1, NoCanal, Null, Null), Solicitud(1, 1, "ONLINE", Null, Null)}

\* stores without rules, with the two channel rules of equal priority 1 and 5, and with
\* these and the unit-scale rule 7
InitSecuencia ==
    InitCon({{r \in ReglasPosibles : r.id \in ids} : ids \in {{}, {1, 5}, {1, 5, 7}, {2, 7}}},
            {<<>>})

\* one more call, while fewer than MaxCalculos were made
CalcularPrecioSecuencia ==
    \E sol \in SolicitudesSecuencia :
        /\ Len(anteriores) + (IF ultimo = SinSolicitud THEN 0 ELSE 1) < MaxCalculos
        /\ calcular_precio(sol)

NextSecuencia == CalcularPrecioSecuencia

SpecSecuencia == InitSecuencia /\ [][NextSecuencia]_vars

\* batch requests: one or two lines, priced, unpriced, inactive and unknown items, an
\* empty batch
SolicitudesDeLote ==
    [empresa_id : {1}, sucursal_id : {0}, canal : {NoCanal, "TIENDA"}, fecha : {Null},
     hoy : {5},
     items : {<<>>, <<Item(1, 1)>>, <<Item(3, 1)>>,
              <<Item(1, 1), Item(2, 1)>>, <<Item(2, 10), Item(1, 1)>>,
              <<Item(1, 1), Item(4, 1)>>, <<Item(9, 1), Item(1, 1)>>}]

\* stores with the channel rule 1, the unit-scale rule 6 and the order-amount rules 11
\* and 12, without bundle or with bundle 21
InitLote ==
    InitCon({{r \in ReglasPosibles : r.id \in ids} :
                ids \in {{}, {1, 11}, {11, 12}, {1, 6, 12}}},
            {<<>>, <<CHOOSE c \in CombinacionesPosibles : c.id = 21>>})

\* one batch request against the store
CalcularPrecioMultiple ==
    \E args \in SolicitudesDeLote :
        /\ consulta = SinConsulta
        /\ CalculoPrecioMultiple(args)

NextLote == CalcularPrecioMultiple

SpecLote == InitLote /\ [][NextLote]_vars

\* registrations on the base-price record 2 and on a record that does not exist, with
\* percentages on, inside and outside the bounds
RegistrosDeDescuento ==
    [operacion : {"descuento"}, precio_articulo_id : {2, 9},
     descuento_porcentaje : {49, 50, 60, 70, 71}, observaciones : {"liquidacion"}]

\* stores with the unit-scale rule 7, alone or with the channel rule 2
InitDescuento ==
    InitCon({{r \in ReglasPosibles : r.id \in ids} : ids \in {{7}, {2, 7}}}, {<<>>})

\* the writers of calls that run one after the other are interchangeable: they take
\* their turns in the order of their numbers
EnTurno(w) == \A v \in 1..(w - 1) : escritores[v].pc = "hecho"

\* one registration by a writer that has made none
RegistrarDescuentoProveedor ==
    \E w \in 1..MaxEscritores, op \in RegistrosDeDescuento :
        /\ EnTurno(w)
        /\ registrar_descuento_proveedor(w, op)

NextDescuento == RegistrarDescuentoProveedor

SpecDescuento == InitDescuento /\ [][NextDescuento]_vars

\* registrations on record 2, inside and outside the bounds
RegistrosDeAutorizacion ==
    [operacion : {"descuento"}, precio_articulo_id : {2}, descuento_porcentaje : {50, 71},
     observaciones : {"liquidacion"}]

\* item 2 through TIENDA, priced from record 2, and item 1, priced from record 1
SolicitudesAutorizacion ==
    {Solicitud(a, 1, "TIENDA", Null, Null) : a \in {1, 2}}

\* the store without rules, where record 2 gives a price above the cost, and the store
\* with the unit-scale rule 7, where it gives one below
InitAutorizacion ==
    InitCon({{}, {r \in ReglasPosibles : r.id = 7}}, {<<>>})

RegistrarAutorizacion ==
    \E w \in 1..MaxEscritores, op \in RegistrosDeAutorizacion :
        /\ EnTurno(w)
        /\ registrar_descuento_proveedor(w, op)

CalcularPrecioAutorizacion ==
    \E sol \in SolicitudesAutorizacion :
        /\ Len(anteriores) + (IF ultimo = SinSolicitud THEN 0 ELSE 1) < MaxCalculos
        /\ calcular_precio(sol)

\* registrations and calculations in any order
NextAutorizacion ==
    \/ RegistrarAutorizacion
    \/ CalcularPrecioAutorizacion

SpecAutorizacion == InitAutorizacion /\ [][NextAutorizacion]_vars

\* loads of a base price for item 2 in list 1, where it has a row, in list 2, where it
\* has none, and in a list or for an item that does not exist
CargasDePrecio ==
    [operacion : {"carga"}, lista_precio_id : {1, 2, 9}, articulo_id : {2, 9},
     precio_base : {35, 45}]

RegistrarLeer ==
    \E w \in 1..MaxEscritores, op \in RegistrosDeDescuento : registrar_leer(w, op)

RegistrarGuardar ==
    \E w \in 1..MaxEscritores : registrar_guardar(w)

CargaMasiva ==
    \E w \in 1..MaxEscritores, op \in CargasDePrecio : carga_masiva(w, op)

\* writers whose statements reach the store in any order
NextConcurrente ==
    \/ RegistrarLeer
    \/ RegistrarGuardar
    \/ CargaMasiva

SpecConcurrente == InitDescuento /\ [][NextConcurrente]_vars

\* updates of record 2 (item 2, last cost 30) and of a record that does not exist,
\* with a base price below, at and above the cost
ActualizacionesDePrecio ==
    [operacion : {"precio"}, precio_articulo_id : {2, 9}, precio_base : {25, 30, 40},
     bajo_costo : BOOLEAN, autorizado_bajo_costo : BOOLEAN,
     descuento_proveedor : {0, 49, 50}]

ActualizarPrecio ==
    \E w \in 1..MaxEscritores, op \in ActualizacionesDePrecio : actualizar_precio(w, op)

NextPrecio ==
    \/ ActualizarPrecio
    \/ RegistrarDescuentoProveedor

SpecPrecio == InitDescuento /\ [][NextPrecio]_vars

\* lists of two companies, of branch 1 and without branch, open-ended, closed before
\* list 1 starts, closed after it starts, and with the dates inverted
ListasACrear ==
    [operacion : {"lista"}, nombre : {9}, empresa : {1, 2}, sucursal : {0, 1},
     canal : {NoCanal}, fecha_inicio : {1, 3}, fecha_fin : {Null, Some(2), Some(4)},
     activo : BOOLEAN]

\* the store of the API tests: one active list of company 1, open-ended, from day 3
InitListas ==
    /\ articulos = ArticulosIniciales
    /\ listas = {Lista(1, "TIENDA", 3)}
    /\ precios = PreciosIniciales
    /\ reglas = {}
    /\ combinaciones = <<>>
    /\ auditoria = <<>>
    /\ ultimo = SinSolicitud
    /\ anteriores = <<>>
    /\ consulta = SinConsulta
    /\ escritores = [w \in 1..MaxEscritores |-> [pc |-> "libre"]]

CrearLista ==
    \E w \in 1..MaxEscritores, op \in ListasACrear : crear_lista(w, op)

CrearListaAdmin ==
    \E w \in 1..MaxEscritores, op \in ListasACrear : crear_lista_admin(w, op, 5)

NextListas ==
    \/ CrearLista
    \/ CrearListaAdmin

SpecListas == InitListas /\ [][NextListas]_vars

\* bundles of list 1 to create, named 31 and 32
CombinacionesACrear ==
    [operacion : {"combinacion"}, nombre : {31, 32}, lista_precio : {1},
     cantidad_minima : {1, 2}, tipo_descuento : {"MONTO_FIJO", "PORCENTAJE"},
     valor_descuento : {10}, activo : BOOLEAN]

\* requirements to add: one unit of item 1, two units of group 2
DetallesAAgregar ==
    [operacion : {"detalle"}, pk : {31, 32, 39},
     detalle : {Detalle(1, 0, 0, 1), Detalle(0, 2, 0, 2)}]

\* the store without rules and without bundles
InitAlta == InitCon({{}}, {<<>>})

CrearCombinacion ==
    \E w \in 1..MaxEscritores, op \in CombinacionesACrear :
        /\ \A i \in 1..Len(combinaciones) : combinaciones[i].id # op.nombre
        /\ crear_combinacion(w, op)

AgregarDetalle ==
    \E w \in 1..MaxEscritores, op \in DetallesAAgregar : agregar_detalle(w, op)

\* one calculation of item 1 with an order of one unit of item 1, or without order lines
CalcularPrecioAlta ==
    \E sol \in {Solicitud(1, 1, "TIENDA", Null, i) : i \in {Null, Some(<<Item(1, 1)>>)}} :
        /\ ultimo = SinSolicitud
        /\ calcular_precio(sol)

NextAlta ==
    \/ CrearCombinacion
    \/ AgregarDetalle
    \/ CalcularPrecioAlta

SpecAlta == InitAlta /\ [][NextAlta]_vars

\* rules and bundles with large discounts: percentages of 100 and above, a fixed amount
\* above every base price
ReglasGrandes ==
    {Regla(14, 1, "CANAL", 1, "TIENDA", 0, 0, Null, Null, "PORCENTAJE", 150, TRUE),
     Regla(15, 1, "ESCALA_UNIDADES", 1, NoCanal, 0, 0, Null, Null, "PORCENTAJE", 100, TRUE),
     Regla(16, 1, "ESCALA_MONTO", 1, NoCanal, 0, 0, Null, Null, "MONTO_FIJO", 500, TRUE),
     Regla(17, 1, "MONTO_PEDIDO", 1, NoCanal, 0, 0, Null, Null, "PORCENTAJE", 20, TRUE)}

CombinacionesGrandes ==
    {Combinacion(26, 1, "PORCENTAJE", 120, TRUE, <<Detalle(1, 0, 0, 1)>>),
     Combinacion(27, 1, "MONTO_FIJO", 500, TRUE, <<Detalle(1, 0, 0, 1)>>)}

\* every store of those rules, without bundle or with one of those bundles
InitNumerico ==
    InitCon(SUBSET ReglasGrandes, {<<>>} \cup {<<c>> : c \in CombinacionesGrandes})

NextNumerico == CalcularPrecio

SpecNumerico == InitNumerico /\ [][NextNumerico]_vars

\* new values of cantidad_minima for the bundles 21 and 22 and for an unknown bundle
CantidadesMinimas ==
    {[operacion |-> "cantidad_minima", pk |-> 21, cantidad_minima |-> 5],
     [operacion |-> "cantidad_minima", pk |-> 22, cantidad_minima |-> 1],
     [operacion |-> "cantidad_minima", pk |-> 29, cantidad_minima |-> 5]}

\* orders of item 1 that meet the requirements of bundle 21, of bundle 22
SolicitudesMinima ==
    {Solicitud(1, 1, "TIENDA", Null, i) :
        i \in {Some(<<Item(1, 1), Item(4, 1)>>),
               Some(<<Item(2, 1), Item(1, 1), Item(1, 1)>>)}}

\* stores without rules, with the bundles 21 and 22 or with bundle 22 alone
InitMinima ==
    InitCon({{}}, {<<c>> \o <<CHOOSE d \in CombinacionesPosibles : d.id = 22>> :
                        c \in {d \in CombinacionesPosibles : d.id = 21}}
                  \cup {<<CHOOSE d \in CombinacionesPosibles : d.id = 22>>})

ActualizarCantidadMinima ==
    \E w \in 1..MaxEscritores, op \in CantidadesMinimas :
        /\ EnTurno(w)
        /\ actualizar_cantidad_minima(w, op)

CalcularPrecioMinima ==
    \E sol \in SolicitudesMinima :
        /\ Len(anteriores) + (IF ultimo = SinSolicitud THEN 0 ELSE 1) < MaxCalculos
        /\ calcular_precio(sol)

NextMinima ==
    \/ ActualizarCantidadMinima
    \/ CalcularPrecioMinima

SpecMinima == InitMinima /\ [][NextMinima]_vars

\* every store of at most MaxListas lists, the other tables as in the tests
InitLista ==
    /\ articulos = ArticulosIniciales
    /\ listas \in {ls \in SUBSET ListasPosibles : Cardinality(ls) <= MaxListas}
    /\ precios = PreciosIniciales
    /\ reglas = {}
    /\ combinaciones = <<>>
    /\ auditoria = <<>>
    /\ ultimo = SinSolicitud
    /\ anteriores = <<>>
    /\ consulta = SinConsulta
    /\ escritores = [w \in 1..MaxEscritores |-> [pc |-> "libre"]]

\* one call of the resolver against the store
ObtenerListaVigente ==
    \E args \in ConsultasDeLista :
        /\ consulta = SinConsulta
        /\ ListaVigente(args)

NextLista == ObtenerListaVigente

SpecLista == InitLista /\ [][NextLista]_vars

(***************************************************************************)
(* Properties of one calculation                                           *)
(***************************************************************************)
Orden == Orden0
Posicion(tipo) == CHOOSE i \in 1..5 : Orden[i] = tipo

Exito == ultimo.ok
ListaResuelta == CHOOSE l \in listas : l.id = ultimo.lista
ArticuloCotizado == CHOOSE a \in articulos : a.id = ultimo.articulo
ReglaNombrada(nombre) == CHOOSE r \in reglas : r.nombre = nombre
\* the running price a stage received
PrecioDeEntrada(k) == IF k = 1 THEN ultimo.precio_base ELSE ultimo.pasos[k - 1].precio

\* C1: reglas_aplicadas holds at most one entry per rule kind, its kinds follow the
\* order CANAL, ESCALA_UNIDADES, ESCALA_MONTO, MONTO_PEDIDO, COMBINACION, and when all
\* five stages have a winner it is exactly that sequence of kinds.
C1_OrdenDeEtapas ==
    Exito =>
        LET aplicadas == ultimo.res.reglas_aplicadas
        IN  /\ \A i, j \in 1..Len(aplicadas) :
                i < j => Posicion(aplicadas[i].tipo) < Posicion(aplicadas[j].tipo)
            /\ (\A k \in 1..5 : ultimo.pasos[k].regla # Null) =>
                    /\ Len(aplicadas) = 5
                    /\ \A k \in 1..5 : aplicadas[k].tipo = Orden[k]

C1_Testigo ==
    /\ Exito
    /\ \A k \in 1..5 : ultimo.pasos[k].regla # Null

\* the discount of an applied-rule descriptor on a price, as the spec states it
DescuentoEsperado(precio, descriptor) ==
    IF descriptor.tipo_descuento = "PORCENTAJE"
    THEN DMul(precio, Frac(100 - descriptor.descuento[1], 100))
    ELSE LET resto == DSub(precio, descriptor.descuento)
         IN  IF resto[1] < 0 THEN Dec(0) ELSE resto

RECURSIVE Plegado(_, _, _)
Plegado(precio, descriptores, n) ==
    IF n = 0 THEN precio
    ELSE DescuentoEsperado(Plegado(precio, descriptores, n - 1), descriptores[n])

\* C2: precio_final is the left-to-right fold of the applied discounts over precio_base,
\* each stage discounting the previous stage's price, and a MONTO_FIJO discount never
\* yields a price below 0.
C2_PlegadoDeDescuentos ==
    Exito =>
        LET aplicadas == ultimo.res.reglas_aplicadas
        IN  /\ ultimo.res.precio_final
                 = Plegado(ultimo.res.precio_base, aplicadas, Len(aplicadas))
            /\ \A k \in 1..5 :
                 ultimo.pasos[k].regla # Null =>
                    /\ ultimo.pasos[k].precio
                         = DescuentoEsperado(PrecioDeEntrada(k), ultimo.pasos[k].regla[1])
                    /\ (ultimo.pasos[k].regla[1].tipo_descuento = "MONTO_FIJO"
                            => ultimo.pasos[k].precio[1] >= 0)

\* two discounts compounded, the second one a fixed amount clamped at 0
C2_Testigo ==
    /\ Exito
    /\ Len(ultimo.res.reglas_aplicadas) >= 2
    /\ \E k \in 2..5 :
        /\ ultimo.pasos[k].regla # Null
        /\ ultimo.pasos[k].regla[1].tipo_descuento = "MONTO_FIJO"
        /\ PrecioDeEntrada(k) # ultimo.precio_base
        /\ DLt(Dec(0), PrecioDeEntrada(k))
        /\ DLt(PrecioDeEntrada(k), ultimo.pasos[k].regla[1].descuento)
        /\ ultimo.pasos[k].precio = Dec(0)

\* the candidate rules of stage k (1..4) of the last calculation
CandidatasDeEtapa(k) ==
    CASE k = 1 -> CandidatasCanal(ListaResuelta, ArticuloCotizado, ultimo.sol.canal)
      [] k = 2 -> CandidatasEscalaUnidades(ListaResuelta, ArticuloCotizado,
                                           Dec(ultimo.sol.cantidad))
      [] k = 3 -> CandidatasEscalaMonto(ListaResuelta, ArticuloCotizado,
                        DMul(PrecioDeEntrada(3), Dec(ultimo.sol.cantidad)))
      [] k = 4 -> CandidatasMontoPedido(ListaResuelta, Dec(ultimo.sol.monto_pedido[1]))

\* C3: in each of the four rule stages at most one rule is applied, and it is a
\* candidate whose priority is at least that of every other candidate of the stage.
C3_MayorPrioridad ==
    Exito =>
        \A k \in 1..4 :
            /\ Cardinality({i \in 1..Len(ultimo.res.reglas_aplicadas) :
                    ultimo.res.reglas_aplicadas[i].tipo = Orden[k]}) <= 1
            /\ ultimo.pasos[k].regla # Null =>
                LET aplicada == ReglaNombrada(ultimo.pasos[k].regla[1].nombre)
                IN  /\ aplicada \in CandidatasDeEtapa(k)
                    /\ \A otra \in CandidatasDeEtapa(k) :
                            otra.prioridad <= aplicada.prioridad

\* a stage with candidates of two different priorities
C3_Testigo ==
    /\ Exito
    /\ \E k \in 1..4 :
        /\ ultimo.pasos[k].regla # Null
        /\ \E otra \in CandidatasDeEtapa(k) :
            otra.prioridad < ReglaNombrada(ultimo.pasos[k].regla[1].nombre).prioridad

\* the scope of a rule against an item, as the spec states it
AlcanceEsperado(regla, articulo) ==
    \/ (regla.linea_articulo = 0 /\ regla.grupo_articulo = 0)
    \/ (regla.grupo_articulo # 0 /\ regla.grupo_articulo = articulo.grupo)
    \/ (regla.linea_articulo # 0 /\ regla.linea_articulo = LineaDeGrupo(articulo.grupo))

\* C4: a rule applied by the channel, unit-scale or amount-scale stage is active, of the
\* resolved list, of the stage's kind, and unscoped or scoped to the item's group or
\* line; the order-amount stage takes its candidates whatever their scope.
C4_FiltroDeCandidatas ==
    Exito =>
        /\ \A k \in 1..3 :
            ultimo.pasos[k].regla # Null =>
                LET aplicada == ReglaNombrada(ultimo.pasos[k].regla[1].nombre)
                IN  /\ aplicada.activo
                    /\ aplicada.lista_precio = ultimo.lista
                    /\ aplicada.tipo_regla = Orden[k]
                    /\ AlcanceEsperado(aplicada, ArticuloCotizado)
        /\ ultimo.pasos[4].evaluada =>
            LET de_pedido == {r \in reglas :
                                /\ r.activo
                                /\ r.lista_precio = ultimo.lista
                                /\ r.tipo_regla = "MONTO_PEDIDO"
                                /\ EnRango(r.monto_minimo, r.monto_maximo,
                                           Dec(ultimo.sol.monto_pedido[1]))}
            IN  /\ (de_pedido # {}) = (ultimo.pasos[4].regla # Null)
                /\ ultimo.pasos[4].regla # Null =>
                    ReglaNombrada(ultimo.pasos[4].regla[1].nombre) \in de_pedido

\* a scoped rule applied to an item of its scope while the store holds a rule of the
\* same kind scoped elsewhere, and an order-amount rule applied outside its scope
C4_Testigo ==
    /\ Exito
    /\ \E k \in 1..3 :
        /\ ultimo.pasos[k].regla # Null
        /\ ReglaNombrada(ultimo.pasos[k].regla[1].nombre).grupo_articulo
            = ArticuloCotizado.grupo
        /\ \E r \in reglas :
            /\ r.tipo_regla \in {Orden[1], Orden[2], Orden[3]}
            /\ r.activo /\ r.lista_precio = ultimo.lista
            /\ ~AlcanceEsperado(r, ArticuloCotizado)
    /\ ultimo.pasos[4].regla # Null
    /\ ~AlcanceEsperado(ReglaNombrada(ultimo.pasos[4].regla[1].nombre), ArticuloCotizado)

\* C5: the channel stage runs exactly when a channel was supplied and applies only
\* rules of that channel; the order-amount stage runs exactly when an order amount was
\* supplied, whatever its value; the combination stage runs exactly when order lines
\* were supplied; the unit-scale and amount-scale stages always run.
C5_PrecondicionesDeEtapas ==
    Exito =>
        /\ ultimo.pasos[1].evaluada = (ultimo.sol.canal # NoCanal)
        /\ ultimo.pasos[1].regla # Null =>
                ReglaNombrada(ultimo.pasos[1].regla[1].nombre).canal = ultimo.sol.canal
        /\ ultimo.pasos[2].evaluada
        /\ ultimo.pasos[3].evaluada
        /\ ultimo.pasos[4].evaluada = (ultimo.sol.monto_pedido # Null)
        /\ ultimo.pasos[5].evaluada =
                (ultimo.sol.items_pedido # Null /\ Len(ultimo.sol.items_pedido[1]) > 0)
        /\ (/\ ultimo.sol.monto_pedido # Null
            /\ \E r \in reglas :
                /\ r.activo /\ r.lista_precio = ultimo.lista
                /\ r.tipo_regla = "MONTO_PEDIDO"
                /\ EnRango(r.monto_minimo, r.monto_maximo, Dec(ultimo.sol.monto_pedido[1])))
            => ultimo.pasos[4].regla # Null

\* min <= value <= max on a fraction, a null bound open
RangoEsperado(minimo, maximo, valor) ==
    /\ (minimo # Null => minimo[1] * valor[2] <= valor[1])
    /\ (maximo # Null => valor[1] <= maximo[1] * valor[2])

\* the value stage k measures: quantity, line amount, order amount
ValorMedido(k) ==
    CASE k = 2 -> Dec(ultimo.sol.cantidad)
      [] k = 3 -> DMul(PrecioDeEntrada(3), Dec(ultimo.sol.cantidad))
      [] k = 4 -> Dec(ultimo.sol.monto_pedido[1])

MinimoDe(r, k) == IF k = 2 THEN r.cantidad_minima ELSE r.monto_minimo
MaximoDe(r, k) == IF k = 2 THEN r.cantidad_maxima ELSE r.monto_maximo

\* the active rules of the resolved list of stage k's kind, in scope
DeLaEtapa(k) ==
    {r \in reglas :
        /\ r.activo
        /\ r.lista_precio = ultimo.lista
        /\ r.tipo_regla = Orden[k]
        /\ (k = 4 \/ AlcanceEsperado(r, ArticuloCotizado))}

\* C6: in the unit-scale, amount-scale and order-amount stages a rule is a candidate
\* exactly when min <= value <= max with both bounds inclusive and a null bound open.
C6_RangoInclusivo ==
    Exito =>
        \A k \in 2..4 :
            ultimo.pasos[k].evaluada =>
                LET en_rango == {r \in DeLaEtapa(k) :
                                    RangoEsperado(MinimoDe(r, k), MaximoDe(r, k),
                                                  ValorMedido(k))}
                IN  /\ (ultimo.pasos[k].regla # Null) = (en_rango # {})
                    /\ ultimo.pasos[k].regla # Null =>
                        ReglaNombrada(ultimo.pasos[k].regla[1].nombre) \in en_rango

\* a rule applied with the value on one of its bounds, beside a rule left out because
\* the value is outside its range
C6_Testigo ==
    /\ Exito
    /\ \E k \in 2..4 :
        /\ ultimo.pasos[k].regla # Null
        /\ LET aplicada == ReglaNombrada(ultimo.pasos[k].regla[1].nombre)
           IN  \/ MinimoDe(aplicada, k) = Some(ValorMedido(k)[1]) /\ ValorMedido(k)[2] = 1
               \/ MaximoDe(aplicada, k) = Some(ValorMedido(k)[1]) /\ ValorMedido(k)[2] = 1
        /\ \E r \in DeLaEtapa(k) :
            ~RangoEsperado(MinimoDe(r, k), MaximoDe(r, k), ValorMedido(k))

\* C7: the amount-scale stage tests its bounds against (price after the channel and
\* unit-scale stages) x quantity, never against precio_base x quantity.
C7_MontoSobrePrecioCorriente ==
    Exito =>
        LET monto_corriente == DMul(ultimo.pasos[2].precio, Dec(ultimo.sol.cantidad))
            monto_base == DMul(ultimo.precio_base, Dec(ultimo.sol.cantidad))
        IN  /\ \A r \in DeLaEtapa(3) :
                (/\ RangoEsperado(r.monto_minimo, r.monto_maximo, monto_base)
                 /\ ~RangoEsperado(r.monto_minimo, r.monto_maximo, monto_corriente))
                => (ultimo.pasos[3].regla = Null
                    \/ ultimo.pasos[3].regla[1].nombre # r.nombre)
            /\ \A r \in DeLaEtapa(3) :
                RangoEsperado(r.monto_minimo, r.monto_maximo, monto_corriente)
                    => ultimo.pasos[3].regla # Null
            /\ ultimo.pasos[3].regla # Null =>
                LET aplicada == ReglaNombrada(ultimo.pasos[3].regla[1].nombre)
                IN  RangoEsperado(aplicada.monto_minimo, aplicada.monto_maximo,
                                  monto_corriente)

\* precio_base x quantity reaches a rule's minimum, the discounted price x quantity
\* does not, and the amount-scale stage applies nothing
C7_Testigo ==
    /\ Exito
    /\ ultimo.pasos[2].precio # ultimo.precio_base
    /\ ultimo.pasos[3].regla = Null
    /\ \E r \in DeLaEtapa(3) :
        /\ r.monto_minimo # Null
        /\ RangoEsperado(r.monto_minimo, r.monto_maximo,
                         DMul(ultimo.precio_base, Dec(ultimo.sol.cantidad)))
        /\ ~RangoEsperado(r.monto_minimo, r.monto_maximo,
                          DMul(ultimo.pasos[2].precio, Dec(ultimo.sol.cantidad)))

\* the order lines handed to the combination stage
LineasDelPedido == ultimo.sol.items_pedido[1]

\* positions of the bundles the combination stage may apply: active, of the resolved list
Elegibles ==
    {i \in 1..Len(combinaciones) :
        combinaciones[i].activo /\ combinaciones[i].lista_precio = ultimo.lista}

\* C8: the combination stage applies at most one bundle, the first in stored order
\* among the active bundles of the resolved list that matches all its requirements,
\* whatever the discounts; inactive bundles and bundles of other lists are never applied.
C8_PrimeraCombinacion ==
    (Exito /\ ultimo.pasos[5].evaluada) =>
        LET coinciden == {i \in Elegibles :
                            _validar_combinacion(combinaciones[i], LineasDelPedido)}
            de_combinacion == {n \in 1..Len(ultimo.res.reglas_aplicadas) :
                                ultimo.res.reglas_aplicadas[n].tipo = "COMBINACION"}
        IN  /\ Cardinality(de_combinacion) <= 1
            /\ (coinciden = {}) = (ultimo.pasos[5].regla = Null)
            /\ (coinciden = {}) = (de_combinacion = {})
            /\ coinciden # {} =>
                LET primera == combinaciones[CHOOSE i \in coinciden :
                                                \A j \in coinciden : i <= j]
                IN  /\ ultimo.pasos[5].regla[1].nombre = primera.nombre
                    /\ ultimo.pasos[5].precio =
                        DescuentoEsperado(PrecioDeEntrada(5), ultimo.pasos[5].regla[1])

\* a matching inactive or other-list bundle stored first, then the applied bundle, then
\* a matching bundle of the list with a larger discount value
C8_Testigo ==
    /\ Exito
    /\ ultimo.pasos[5].regla # Null
    /\ \E i, j, k \in 1..Len(combinaciones) :
        /\ i < j /\ j < k
        /\ i \notin Elegibles
        /\ _validar_combinacion(combinaciones[i], LineasDelPedido)
        /\ combinaciones[j].nombre = ultimo.pasos[5].regla[1].nombre
        /\ k \in Elegibles
        /\ _validar_combinacion(combinaciones[k], LineasDelPedido)
        /\ combinaciones[k].valor_descuento > combinaciones[j].valor_descuento

\* a known item of an order line meets the requirement's target
Satisface(detalle, item) ==
    \E a \in articulos :
        /\ a.id = item.articulo_id
        /\ \/ (detalle.articulo # 0 /\ detalle.articulo = a.id)
           \/ (detalle.grupo_articulo # 0 /\ detalle.grupo_articulo = a.grupo)
           \/ (detalle.linea_articulo # 0 /\ detalle.linea_articulo = LineaDeGrupo(a.grupo))

\* the sum of the quantities of the order lines at the positions of S
RECURSIVE SumaDeCantidades(_, _)
SumaDeCantidades(items, S) ==
    IF S = {} THEN 0
    ELSE LET n == CHOOSE x \in S : TRUE
         IN  items[n].cantidad + SumaDeCantidades(items, S \ {n})

CoincideEsperado(combinacion, items) ==
    \A d \in 1..Len(combinacion.detalles) :
        SumaDeCantidades(items, {n \in 1..Len(items) :
                                    Satisface(combinacion.detalles[d], items[n])})
            >= combinacion.detalles[d].cantidad_requerida

\* C9: a bundle matches exactly when every requirement's required quantity is reached
\* by the sum of the quantities of the order lines whose item is the requirement's
\* item or is in its group or in a group of its line; unknown items add nothing.
C9_CoincidenciaDeCombinacion ==
    (Exito /\ ultimo.pasos[5].evaluada) =>
        IF ultimo.pasos[5].regla = Null
        THEN \A i \in Elegibles : ~CoincideEsperado(combinaciones[i], LineasDelPedido)
        ELSE \E i \in Elegibles :
                /\ combinaciones[i].nombre = ultimo.pasos[5].regla[1].nombre
                /\ CoincideEsperado(combinaciones[i], LineasDelPedido)
                /\ \A j \in Elegibles :
                    j < i => ~CoincideEsperado(combinaciones[j], LineasDelPedido)

\* the applied bundle has a requirement none of its satisfying order lines reaches
\* alone, and the order names an unknown item
C9_Testigo ==
    /\ Exito
    /\ ultimo.pasos[5].regla # Null
    /\ \E n \in 1..Len(LineasDelPedido) : ArticuloPorId(LineasDelPedido[n].articulo_id) = {}
    /\ \E i \in Elegibles :
        /\ combinaciones[i].nombre = ultimo.pasos[5].regla[1].nombre
        /\ \E d \in 1..Len(combinaciones[i].detalles) :
            \A n \in 1..Len(LineasDelPedido) :
                Satisface(combinaciones[i].detalles[d], LineasDelPedido[n]) =>
                    LineasDelPedido[n].cantidad
                        < combinaciones[i].detalles[d].cantidad_requerida

\* C10: a stage without a winner leaves the running price as it received it and adds
\* nothing to reglas_aplicadas; when no stage has a winner precio_final = precio_base
\* and reglas_aplicadas is empty.
C10_SinGanadora ==
    Exito =>
        LET con_ganadora == {k \in 1..5 : ultimo.pasos[k].regla # Null}
        IN  /\ \A k \in (1..5) \ con_ganadora :
                ultimo.pasos[k].precio = PrecioDeEntrada(k)
            /\ Len(ultimo.res.reglas_aplicadas) = Cardinality(con_ganadora)
            /\ con_ganadora = {} =>
                /\ ultimo.res.precio_final = ultimo.res.precio_base
                /\ ultimo.res.reglas_aplicadas = <<>>

\* the four rule stages evaluated against a store that holds an active rule of the
\* resolved list for each of them, and no stage has a winner
C10_Testigo ==
    /\ Exito
    /\ \A k \in 1..5 : ultimo.pasos[k].regla = Null
    /\ \A k \in 1..4 :
        /\ ultimo.pasos[k].evaluada
        /\ \E r \in reglas :
            r.activo /\ r.lista_precio = ultimo.lista /\ r.tipo_regla = Orden[k]
    /\ ultimo.res.precio_final = ultimo.res.precio_base
    /\ ultimo.res.reglas_aplicadas = <<>>

\* the date the resolver was asked about
FechaConsultada == IF consulta.args.fecha # Null THEN consulta.args.fecha[1] ELSE consulta.args.hoy

\* the lists that satisfy the filter of the call answered in consulta
ListasValidas ==
    {l \in listas :
        /\ l.empresa = consulta.args.empresa_id
        /\ l.activo
        /\ l.fecha_inicio <= FechaConsultada
        /\ (l.fecha_fin = Null \/ l.fecha_fin[1] >= FechaConsultada)
        /\ (consulta.args.sucursal_id # 0 => l.sucursal = consulta.args.sucursal_id)
        /\ (consulta.args.canal # NoCanal => l.canal = consulta.args.canal)}

ListaDevuelta == CHOOSE l \in listas : l.id = consulta.lista

\* C11: obtener_lista_vigente returns nothing exactly when no list satisfies the filter;
\* otherwise it returns a list that satisfies it, for which esta_vigente(date) holds, and
\* whose fecha_inicio is the latest among the lists satisfying the filter.
C11_ListaVigenteMasReciente ==
    consulta.op = "lista" =>
        /\ (consulta.lista = 0) = (ListasValidas = {})
        /\ consulta.lista # 0 =>
            /\ ListaDevuelta \in ListasValidas
            /\ esta_vigente(ListaDevuelta, FechaConsultada)
            /\ \A l \in ListasValidas : l.fecha_inicio <= ListaDevuelta.fecha_inicio

\* several lists satisfy the filter, with different start dates, and the store also holds
\* a list of the company that does not satisfy it
C11_Testigo ==
    /\ consulta.op = "lista"
    /\ consulta.lista # 0
    /\ \E l \in ListasValidas : l.fecha_inicio < ListaDevuelta.fecha_inicio
    /\ \E l \in listas \ ListasValidas : l.empresa = consulta.args.empresa_id

\* C12: the resolver returns a list whose branch is set only when the call named that
\* branch: a call without branch never returns a branch-scoped list, and a call with a
\* branch never returns a list without branch or of another branch.
C12_SucursalSoloSiSePide ==
    (consulta.op = "lista" /\ consulta.lista # 0) =>
        /\ (consulta.args.sucursal_id = 0 => ListaDevuelta.sucursal = 0)
        /\ (consulta.args.sucursal_id # 0 =>
                ListaDevuelta.sucursal = consulta.args.sucursal_id)

\* the lists satisfying the filter for the arguments of a request
ValidasPara(args) ==
    LET fecha == IF args.fecha # Null THEN args.fecha[1] ELSE args.hoy
    IN  {l \in listas :
            /\ l.empresa = args.empresa_id
            /\ l.activo
            /\ l.fecha_inicio <= fecha
            /\ (l.fecha_fin = Null \/ l.fecha_fin[1] >= fecha)
            /\ (args.sucursal_id # 0 => l.sucursal = args.sucursal_id)
            /\ (args.canal # NoCanal => l.canal = args.canal)}

\* of those the ones of the latest start date: the lists the resolver may return
MasRecientesPara(args) ==
    {l \in ValidasPara(args) : \A g \in ValidasPara(args) : g.fecha_inicio <= l.fecha_inicio}

\* C13: calcular_precio returns a result only if a valid list was resolved and that list
\* holds a base-price entry for the item; with no valid list, or no entry in the
\* resolved list even if another valid list has one, it fails and returns no price.
C13_SinListaOSinPrecioFalla ==
    ultimo # SinSolicitud =>
        /\ ultimo.ok =>
            /\ \E l \in MasRecientesPara(ultimo.sol) : l.id = ultimo.lista
            /\ \E p \in precios :
                /\ p.lista_precio = ultimo.lista
                /\ p.articulo = ultimo.sol.articulo_id
                /\ ultimo.res.precio_base = Dec(p.precio_base)
        /\ ValidasPara(ultimo.sol) = {} => ~ultimo.ok
        /\ (\A l \in MasRecientesPara(ultimo.sol) :
                ~\E p \in precios :
                    p.lista_precio = l.id /\ p.articulo = ultimo.sol.articulo_id)
            => ~ultimo.ok

\* the calculation fails for want of an entry in the resolved list while another valid
\* list of the company holds an entry for the item
C13_Testigo ==
    /\ ultimo # SinSolicitud
    /\ ~ultimo.ok
    /\ ultimo.error = "sin_precio"
    /\ \E l \in listas, p \in precios :
        /\ l.empresa = ultimo.sol.empresa_id /\ l.activo
        /\ l.fecha_inicio <= ultimo.sol.hoy /\ l.fecha_fin = Null
        /\ p.lista_precio = l.id /\ p.articulo = ultimo.sol.articulo_id

PrecioArticuloUsado == CHOOSE p \in precios : p.id = ultimo.precio_articulo

\* C14: every result has bajo_costo true exactly when precio_final < ultimo_costo, the
\* condition under which validar_costo answers valido = false and
\* requiere_autorizacion = true; autorizado_bajo_costo is the stored flag of the
\* base-price record when bajo_costo is true, and true otherwise.
C14_BajoCostoInformado ==
    Exito =>
        LET final == ultimo.res.precio_final
            costo == ArticuloCotizado.ultimo_costo
            validacion == validar_costo(ArticuloCotizado, final)
        IN  /\ ultimo.res.bajo_costo = (final[1] < costo * final[2])
            /\ ultimo.res.bajo_costo = ~validacion.valido
            /\ ultimo.res.bajo_costo = validacion.requiere_autorizacion
            /\ ultimo.res.autorizado_bajo_costo =
                (IF ultimo.res.bajo_costo
                 THEN PrecioArticuloUsado.autorizado_bajo_costo
                 ELSE TRUE)

\* a result returned with a discounted price below the last cost and no authorization
\* stored
C14_Testigo ==
    /\ Exito
    /\ ultimo.res.reglas_aplicadas # <<>>
    /\ ultimo.res.bajo_costo
    /\ ~PrecioArticuloUsado.autorizado_bajo_costo
    /\ ~ultimo.res.autorizado_bajo_costo

Llamadas == anteriores \o (IF ultimo = SinSolicitud THEN <<>> ELSE <<ultimo>>)

\* what a call returned to its caller: the result, or the failure
Devuelto(c) == IF c.ok THEN [ok |-> TRUE, res |-> c.res] ELSE [ok |-> FALSE]

\* C16: two calls of calcular_precio with identical inputs and no change of the lists,
\* base prices, rules, bundles or catalog in between return identical results.
C16_Idempotencia ==
    \A i, j \in 1..Len(Llamadas) :
        Llamadas[i].sol = Llamadas[j].sol => Devuelto(Llamadas[i]) = Devuelto(Llamadas[j])

\* C17: a calculation, successful or failed, leaves the price lists, base prices, rules,
\* bundles with their requirements and catalog items unchanged.
C17_SoloCambiaLaAuditoria ==
    [][/\ articulos' = articulos
       /\ listas' = listas
       /\ precios' = precios
       /\ reglas' = reglas
       /\ combinaciones' = combinaciones]_vars

\* a successful calculation with a below-cost price and a failed one have run, the audit
\* log has grown, and the store is the initial one
C17_Testigo ==
    /\ \E i, j \in 1..Len(Llamadas) :
        /\ Llamadas[i].ok /\ Llamadas[i].res.bajo_costo
        /\ ~Llamadas[j].ok
    /\ auditoria # <<>>
    /\ reglas # {}
    /\ precios = PreciosIniciales
    /\ articulos = ArticulosIniciales
    /\ listas = ListasIniciales

\* C18: a failure of the audit sink never fails the calculation: no call fails because
\* the audit write raised.
C18_FallaDeAuditoriaNoAfecta ==
    \A i \in 1..Len(Llamadas) :
        ~(~Llamadas[i].ok /\ Llamadas[i].error = "auditoria")

\* the calls that returned a result, in call order
RECURSIVE Exitosas(_, _)
Exitosas(llamadas, n) ==
    IF n = 0 THEN <<>>
    ELSE IF llamadas[n].ok THEN Append(Exitosas(llamadas, n - 1), llamadas[n])
    ELSE Exitosas(llamadas, n - 1)

\* C19: each successful calculation appends one CALCULO audit record with the item id,
\* base price, final price, applied rules and below-cost flag of its result, a failed one
\* appends none; the CALCULO records are as many as the calculations that returned.
C19_UnRegistroPorCalculo ==
    LET exitosas == Exitosas(Llamadas, Len(Llamadas))
    IN  /\ Len(auditoria) = Len(exitosas)
        /\ \A k \in 1..Len(auditoria) :
            /\ auditoria[k].tipo_operacion = "CALCULO"
            /\ auditoria[k].registro_id = exitosas[k].res.articulo_id
            /\ auditoria[k].datos_nuevos.articulo_id = exitosas[k].res.articulo_id
            /\ auditoria[k].datos_nuevos.precio_base = exitosas[k].res.precio_base
            /\ auditoria[k].datos_nuevos.precio_final = exitosas[k].res.precio_final
            /\ auditoria[k].datos_nuevos.reglas_aplicadas = exitosas[k].res.reglas_aplicadas
            /\ auditoria[k].datos_nuevos.bajo_costo = exitosas[k].res.bajo_costo

\* a failed calculation followed by a successful one with rules applied: one record
C19_Testigo ==
    /\ Len(Llamadas) = 2
    /\ ~Llamadas[1].ok
    /\ Llamadas[2].ok
    /\ Llamadas[2].res.reglas_aplicadas # <<>>
    /\ Len(auditoria) = 1

\* the base price of an item in a list, 0 when the list has no entry for it
BaseEnLista(lista_id, articulo_id) ==
    IF \E p \in precios : p.lista_precio = lista_id /\ p.articulo = articulo_id
    THEN (CHOOSE p \in precios : p.lista_precio = lista_id /\ p.articulo = articulo_id).precio_base
    ELSE 0

\* the sum over the n first lines of base price in the list x quantity
RECURSIVE SumaDeBases(_, _, _)
SumaDeBases(items, lista_id, n) ==
    IF n = 0 THEN 0
    ELSE SumaDeBases(items, lista_id, n - 1)
            + BaseEnLista(lista_id, items[n].articulo_id) * items[n].cantidad

\* C20: in a batch the order amount is the sum over the lines of (base price of the
\* line's item in the resolved list) x (quantity), taken from the base prices before any
\* rule, and that amount is the order amount of the calculation of every line.
C20_MontoDelLote ==
    (consulta.op = "lote" /\ consulta.ok) =>
        LET items == consulta.args.items
            n == Len(items)
            resueltas == MasRecientesPara(consulta.args)
            esperados == IF resueltas = {} THEN {0}
                         ELSE {SumaDeBases(items, l.id, n) : l \in resueltas}
        IN  /\ \E m \in esperados :
                /\ consulta.monto_total = Dec(m)
                /\ Len(Llamadas) = n
                /\ \A k \in 1..n :
                    /\ Llamadas[k].sol.articulo_id = items[k].articulo_id
                    /\ Llamadas[k].sol.cantidad = items[k].cantidad
                    /\ Llamadas[k].sol.monto_pedido = Some(m)

\* a batch of two priced lines of quantities 10 and 1 in which rules lower the price of
\* a line and the order-amount stage applies a rule
C20_Testigo ==
    /\ consulta.op = "lote"
    /\ consulta.ok
    /\ Len(Llamadas) = 2
    /\ consulta.items_procesados = 2
    /\ consulta.args.items[1].cantidad > 1
    /\ \E k \in 1..2 :
        /\ Llamadas[k].pasos[4].regla # Null
        /\ Llamadas[k].pasos[3].precio # Llamadas[k].precio_base

\* line k of the batch answered in consulta can be priced: a list is resolved, the item
\* is active, and every list the resolver may return has an entry for it
LineaCotizable(k) ==
    LET item == consulta.args.items[k]
    IN  /\ MasRecientesPara(consulta.args) # {}
        /\ \E a \in articulos : a.id = item.articulo_id /\ a.activo
        /\ \A l \in MasRecientesPara(consulta.args) :
            \E p \in precios : p.lista_precio = l.id /\ p.articulo = item.articulo_id

\* C21: in a batch a line's failure (unknown item, inactive item, item without base
\* price) becomes an error entry and does not abort the batch: results plus errors are
\* as many as the lines, and every line that can be priced is priced (unless the audit
\* write of its own calculation raised).
C21_FallosPorLinea ==
    consulta.op = "lote" =>
        /\ consulta.ok
        /\ Len(consulta.resultados) + Len(consulta.errores) = Len(consulta.args.items)
        /\ \A k \in 1..Len(consulta.args.items) :
            LineaCotizable(k) => (Llamadas[k].ok \/ Llamadas[k].error = "auditoria")

\* C22: registrar_descuento_proveedor with a percentage outside [50, 70] fails and
\* leaves the base-price record and the audit log unchanged; with a percentage inside,
\* bounds included, it sets descuento_proveedor to it and autorizado_bajo_costo to true,
\* stores the notes, and leaves precio_base (and every other record) unchanged.
C22_DescuentoDeProveedor ==
    [][\A w \in 1..MaxEscritores :
        (escritores[w].pc = "libre" /\ escritores'[w].pc = "hecho") =>
            LET op == escritores'[w].op
                dentro == 50 <= op.descuento_porcentaje /\ op.descuento_porcentaje <= 70
            IN  /\ ~dentro => (/\ ~escritores'[w].ok
                               /\ precios' = precios
                               /\ auditoria' = auditoria)
                /\ escritores'[w].ok =>
                    /\ dentro
                    /\ \E antes \in precios, despues \in precios' :
                        /\ antes.id = op.precio_articulo_id
                        /\ despues.id = op.precio_articulo_id
                        /\ despues.descuento_proveedor = op.descuento_porcentaje
                        /\ despues.autorizado_bajo_costo
                        /\ despues.observaciones = op.observaciones
                        /\ despues.precio_base = antes.precio_base
                        /\ despues.bajo_costo = antes.bajo_costo
                        /\ despues.lista_precio = antes.lista_precio
                        /\ despues.articulo = antes.articulo
                        /\ precios' \ {despues} = precios \ {antes}
                /\ (dentro /\ (\E p \in precios : p.id = op.precio_articulo_id))
                    => (escritores'[w].ok \/ escritores'[w].error = "auditoria")]_vars

\* one registration at a bound has succeeded on record 2, whose precio_base is the
\* initial one, and one just outside the bounds has failed
C22_Testigo ==
    \E w, v \in 1..MaxEscritores :
        /\ escritores[w].pc = "hecho" /\ escritores[w].ok
        /\ escritores[w].op.descuento_porcentaje \in {50, 70}
        /\ escritores[v].pc = "hecho" /\ ~escritores[v].ok
        /\ escritores[v].op.descuento_porcentaje \in {49, 71}
        /\ \E p \in precios :
            /\ p.id = escritores[w].op.precio_articulo_id
            /\ p.descuento_proveedor = escritores[w].op.descuento_porcentaje
            /\ p.autorizado_bajo_costo
            /\ p.observaciones = "liquidacion"
            /\ p.precio_base = 40

\* the table after the write of a finished writer, made on its own
EfectoDe(tabla, e) ==
    IF ~e.ok THEN tabla
    ELSE IF e.op.operacion = "descuento"
    THEN {IF p.id = e.op.precio_articulo_id THEN InstanciaConDescuento(p, e.op) ELSE p :
            p \in tabla}
    ELSE (tabla \ FilaDeCarga(tabla, e.op)) \cup {FilaCargada(tabla, e.op)}

\* the orders in which the writers can be put one after the other
OrdenesSeriales ==
    {s \in [1..MaxEscritores -> 1..MaxEscritores] :
        \A i, j \in 1..MaxEscritores : s[i] = s[j] => i = j}

RECURSIVE EnSerie(_, _, _)
\* the table after the first n writers of the order s
EnSerie(tabla, s, n) ==
    IF n = 0 THEN tabla ELSE EfectoDe(EnSerie(tabla, s, n - 1), escritores[s[n]])

\* C23: registration is an atomic read-modify-write: when the writers of a record
\* (registrations, loads of a base price) have all finished, the table of base prices
\* is the one some serial order of their writes gives, so that no committed change of
\* another writer is lost.
C23_EscrituraSerializable ==
    (\A w \in 1..MaxEscritores : escritores[w].pc = "hecho") =>
        \E s \in OrdenesSeriales : precios = EnSerie(PreciosIniciales, s, MaxEscritores)

\* C24: write-time validation of a base-price record: with precio_base below the
\* item's last cost it succeeds exactly when autorizado_bajo_costo is true or
\* descuento_proveedor >= 50, and the record is then saved with bajo_costo true; with
\* precio_base at or above the cost it always succeeds and bajo_costo is saved as given.
C24_ValidacionDeCosto ==
    [][\A w \in 1..MaxEscritores :
        (/\ escritores[w].pc = "libre" /\ escritores'[w].pc = "hecho"
         /\ escritores'[w].op.operacion = "precio"
         /\ \E p \in precios : p.id = escritores'[w].op.precio_articulo_id) =>
            LET op == escritores'[w].op
                antes == CHOOSE p \in precios : p.id = op.precio_articulo_id
                despues == CHOOSE p \in precios' : p.id = op.precio_articulo_id
                costo == (CHOOSE a \in articulos : a.id = antes.articulo).ultimo_costo
                valido == escritores'[w].error # "costo"
            IN  IF op.precio_base < costo
                THEN /\ valido <=> (op.autorizado_bajo_costo \/ op.descuento_proveedor >= 50)
                     /\ valido => despues.bajo_costo
                ELSE /\ valido
                     /\ despues.bajo_costo = op.bajo_costo]_vars

\* the validity windows of two lists have a day in common
VentanasComunes(l1, l2) ==
    /\ (l2.fecha_fin = Null \/ l1.fecha_inicio <= l2.fecha_fin[1])
    /\ (l1.fecha_fin = Null \/ l2.fecha_inicio <= l1.fecha_fin[1])

\* C25: after any sequence of creations of price lists through the write path, no two
\* active lists of the same company and the same branch scope have overlapping validity
\* windows: an overlapping write is rejected.
C25_VigenciasSinSolape ==
    \A l1, l2 \in listas :
        (/\ l1.id # l2.id
         /\ l1.activo /\ l2.activo
         /\ l1.empresa = l2.empresa
         /\ l1.sucursal = l2.sucursal) => ~VentanasComunes(l1, l2)

\* the stored bundle a successful calculation names as applied, if any
CombinacionAplicada ==
    {i \in 1..Len(combinaciones) :
        \E k \in 1..Len(ultimo.res.reglas_aplicadas) :
            /\ ultimo.res.reglas_aplicadas[k].tipo = "COMBINACION"
            /\ ultimo.res.reglas_aplicadas[k].nombre = combinaciones[i].nombre}

\* C26: a bundle with zero requirements is rejected at creation, so every stored bundle
\* has at least one requirement and no calculation applies a bundle without requirements.
C26_CombinacionConRequisitos ==
    /\ \A i \in 1..Len(combinaciones) : Len(combinaciones[i].detalles) >= 1
    /\ (ultimo # SinSolicitud /\ ultimo.ok) =>
            \A i \in CombinacionAplicada : Len(combinaciones[i].detalles) >= 1

\* C27: the outcome of the combination stage depends only on the resolved list and the
\* order lines, not on the priced item: for the same list, running price and order lines
\* the stage gives every item of the catalog the bundle and the price it gave the
\* priced one.
C27_CombinacionSinArticulo ==
    (Exito /\ ultimo.pasos[5].evaluada) =>
        \A a \in articulos :
            _aplicar_regla_combinacion(ListaResuelta, a, PrecioDeEntrada(5), LineasDelPedido)
                = {<<ultimo.pasos[5].precio, ultimo.pasos[5].regla>>}

\* a bundle was applied none of whose requirements the priced item meets
C27_Testigo ==
    /\ Exito
    /\ ultimo.pasos[5].regla # Null
    /\ \E i \in Elegibles :
        /\ combinaciones[i].nombre = ultimo.pasos[5].regla[1].nombre
        /\ Len(combinaciones[i].detalles) >= 1
        /\ \A d \in 1..Len(combinaciones[i].detalles) :
            ~Satisface(combinaciones[i].detalles[d], Item(ultimo.articulo, 1))

C29_CantidadMinimaSinEfecto ==
    \A i, j \in 1..Len(Llamadas) :
        (/\ Llamadas[i].sol = Llamadas[j].sol
         /\ Llamadas[i].ok /\ Llamadas[j].ok) => Llamadas[i].res = Llamadas[j].res

\* two successful calculations with equal inputs that applied a bundle, and between
\* their audit records the record of that bundle's cantidad_minima set to 5, above the
\* number and the quantities of the order lines
C29_Testigo ==
    /\ Len(Llamadas) = 2
    /\ Llamadas[1].ok /\ Llamadas[2].ok
    /\ Llamadas[1].sol = Llamadas[2].sol
    /\ Llamadas[2].pasos[5].regla # Null
    /\ \E a, b, c \in 1..Len(auditoria) :
        /\ a < b /\ b < c
        /\ auditoria[a].tipo_operacion = "CALCULO"
        /\ auditoria[b].tabla = "combinacion_producto"
        /\ auditoria[b].registro_id = Llamadas[2].pasos[5].regla[1].nombre
        /\ auditoria[b].datos_nuevos.cantidad_minima = 5
        /\ auditoria[c].tipo_operacion = "CALCULO"

\* C30: after a successful registrar_descuento_proveedor on a record, every later
\* calcular_precio that uses the record reports autorizado_bajo_costo = true, below cost
\* or not, no other write changing the flag; and the registration changes no
\* precio_final: calculations with equal inputs give the same precio_final before and
\* after it.
C30_AutorizadoTrasRegistro ==
    [][/\ (Len(Llamadas') > Len(Llamadas) /\ ultimo'.ok
           /\ \E w \in 1..MaxEscritores :
                /\ escritores[w].pc = "hecho" /\ escritores[w].ok
                /\ escritores[w].op.precio_articulo_id = ultimo'.precio_articulo)
          => ultimo'.res.autorizado_bajo_costo
       /\ \A i, j \in 1..Len(Llamadas') :
            (/\ Llamadas'[i].sol = Llamadas'[j].sol
             /\ Llamadas'[i].ok /\ Llamadas'[j].ok)
                => Llamadas'[i].res.precio_final = Llamadas'[j].res.precio_final]_vars

\* the same request priced below cost twice from record 2: unauthorized before the
\* registration, whose audit record lies between those of the two calculations, and
\* authorized after it, with the same precio_final
C30_Testigo ==
    /\ Len(Llamadas) = 2
    /\ Llamadas[1].ok /\ Llamadas[2].ok
    /\ Llamadas[1].sol = Llamadas[2].sol
    /\ Llamadas[1].precio_articulo = 2
    /\ Llamadas[1].res.bajo_costo /\ ~Llamadas[1].res.autorizado_bajo_costo
    /\ Llamadas[2].res.bajo_costo /\ Llamadas[2].res.autorizado_bajo_costo
    /\ Llamadas[1].res.precio_final = Llamadas[2].res.precio_final
    /\ \E w \in 1..MaxEscritores :
        /\ escritores[w].pc = "hecho" /\ escritores[w].ok
        /\ escritores[w].op.precio_articulo_id = 2
    /\ Len(auditoria) = 3
    /\ auditoria[1].tipo_operacion = "CALCULO"
    /\ auditoria[2].tipo_operacion = "MODIFICACION"
    /\ auditoria[3].tipo_operacion = "CALCULO"

====
